---- MODULE Spec2Model ----
(***************************************************************************)
(* Multi-tier cache of lm.render: the in-process MemoryCache (L1), the     *)
(* RedisCache client (L2), the CacheService facade with its                *)
(* stale-while-revalidate protocol, and the CacheDependencyManager.        *)
(*                                                                         *)
(* Time is Date.now() in milliseconds.  Keys and patterns are sequences of *)
(* one-character strings, so that prefix, glob and regular-expression      *)
(* matching are computed character by character as the code does.          *)
(***************************************************************************)
EXTENDS Integers, Sequences, FiniteSets, TLC

VARIABLES
  now,            \* Date.now(), ms
  cache,          \* MemoryCache.cache: Map in insertion order, a sequence of entries
  store,          \* Redis key space under keyPrefix: key -> serialized CacheEntry + native expiry
  patternSets,    \* Redis sets `${keyPrefix}pattern:${pattern}`: pattern -> members + native expiry
  redisUp,        \* whether the Redis transport answers
  processingKeys, \* CacheService.processingKeys
  calls,          \* getWithSWR invocations in progress, one slot per request task
  bgTasks,        \* revalidateInBackground invocations that hold a marker
  fetchLog,       \* history: fetcher invocations per key, by path
  lastOp,         \* history: the operation that completed last and what it returned
  maxSize,        \* MemoryCache.maxSize, the constructor's argument
  dependencies,   \* CacheDependencyManager.dependencies
  depCall,        \* the invalidation in progress (invalidateWithDependencies, invalidatePattern)
  processingQueue, \* ResponsePrecomputeService.processingQueue: cache key -> computation
  preCalls,       \* precomputeResponse invocations in progress
  warm,           \* the warmCache run in progress
  setCalls        \* CacheService.set invocations in progress, in the order their SETEX was sent

vars == <<now, cache, store, patternSets, redisUp, processingKeys, calls,
          bgTasks, fetchLog, lastOp, maxSize, dependencies, depCall,
            processingQueue, preCalls, warm, setCalls>>

----------------------------------------------------------------------------
(* Program constants *)

DefaultTTL == 300000        \* MemoryCache defaultTTL, ms
MemoryCapSeconds == 300     \* CacheService: Math.min(ttl, 300)
PromoteDefaultSeconds == 300 \* CacheService.get: options.ttl || 300
GetMultiplePromoteMs == 300000 \* CacheService.getMultiple: memoryCache.set(key, value, 300000)
AssumedAgeMs == 30000       \* CacheService.getWithMetadata: Date.now() - 30000
PatternGraceSeconds == 60   \* RedisCache.addToPattern: ttl + 60
RedisDefaultTTL == 300      \* RedisCache.setMultiple: entry.ttl || 300
HighPriorityTTL == 86400    \* precomputeResponse: options.priority === 'high' ? 86400
OtherPriorityTTL == 3600    \* precomputeResponse: ... : 3600
ETagBytes == 12             \* performPrecomputation: 16 base64 characters encode 12 bytes

(* Bounds of the model *)

MaxSizeMem == 1             \* MemoryCache maxSize in SpecMem (1000 in the singleton)
MaxSizeSvc == 1             \* MemoryCache maxSize in Spec
MaxTicksMem == 6            \* clock steps taken in SpecMem
MaxTicksSvc == 2            \* clock steps taken in Spec
MaxSizePat == 5             \* MemoryCache maxSize in SpecPat
MaxSizeSetGet == 1          \* MemoryCache maxSize in SpecSetGet
MaxTicksSetGet == 1         \* clock steps taken in SpecSetGet
MaxTicksSWR == 3            \* clock steps taken in SpecSWR
MaxSizeSWR == 1             \* MemoryCache maxSize in SpecSWR
NumCalls == 2               \* request tasks that may be inside getWithSWR at once
MaxFetches == 2             \* fetcher invocations per key
MaxPlainSets == 1           \* plain sets per key in SpecSWR
MaxSizeDep == 2             \* MemoryCache maxSize in SpecDep
MaxDepSteps == 13           \* steps of collectDependents followed in one call
MaxSizeDown == 2            \* MemoryCache maxSize in SpecDown
MaxTicksDown == 2           \* clock steps taken in SpecDown
MaxTicksRedis == 2          \* clock steps taken in SpecRedis
MaxSizePre == 1             \* MemoryCache maxSize in SpecPre
NumPreCalls == 2            \* tasks that may be inside precomputeResponse at once
MaxPreFetches == 2          \* fetcher invocations per endpoint in SpecPre
MaxPreTicks == 8            \* clock steps taken in SpecPreTTL
MaxTTLFetches == 2          \* fetcher invocations per endpoint in SpecPreTTL
MaxSizeWarm == 3            \* MemoryCache maxSize in SpecWarm

Null == "null"
Values == {"A", "B"}

----------------------------------------------------------------------------
(* Keys and patterns as character sequences *)

K_ab1 == <<"a", ":", "b", ":", "1">>
K_ab2 == <<"a", ":", "b", ":", "2">>
K_ax == <<"a", ":", "x">>
K_abcx == <<"a", ":", "b", "c", ":", "x">>
K_aab1 == <<"a", ":", "a", ":", "b", ":", "1">>
P_abStar == <<"a", ":", "b", ":", "*">>
P_aStar == <<"a", ":", "*">>
P_ab1 == <<"a", ":", "b", ":", "1">>

HasPrefix(s, p) == Len(p) <= Len(s) /\ SubSeq(s, 1, Len(p)) = p

\* String.prototype.replace(/\*/g, '.*') followed by RegExp.test: an
\* unanchored search.  ReMatchHere(p, i, s, j) is "p[i..] matches a prefix of
\* s[j..]"; a '*' of the pattern has become '.*', a '.' matches any
\* character, a '?' makes what precedes it optional, and every other
\* character met in the patterns followed here is a literal.
ReAtom(pc, c) == pc = "." \/ pc = c

RECURSIVE ReMatchHere(_, _, _, _)
ReMatchHere(p, i, s, j) ==
  LET optional == i < Len(p) /\ p[i + 1] = "?"
      after == IF optional THEN i + 2 ELSE i + 1
  IN IF i > Len(p) THEN TRUE
     ELSE IF p[i] = "*"
          THEN \E n \in j..(Len(s) + 1) : ReMatchHere(p, after, s, n)
          ELSE \/ optional /\ ReMatchHere(p, after, s, j)
               \/ j <= Len(s) /\ ReAtom(p[i], s[j]) /\ ReMatchHere(p, after, s, j + 1)

RegexTest(pattern, key) ==
  \E start \in 1..(Len(key) + 1) : ReMatchHere(pattern, 1, key, start)

\* Redis KEYS glob: anchored at both ends, '*' matches any run of characters,
\* '?' any one character.
GlobAtom(pc, c) == pc = "?" \/ pc = c

RECURSIVE GlobMatchFrom(_, _, _, _)
GlobMatchFrom(p, i, s, j) ==
  IF i > Len(p) THEN j > Len(s)
  ELSE IF p[i] = "*"
       THEN \E n \in j..(Len(s) + 1) : GlobMatchFrom(p, i + 1, s, n)
       ELSE j <= Len(s) /\ GlobAtom(p[i], s[j]) /\ GlobMatchFrom(p, i + 1, s, j + 1)

GlobMatch(pattern, key) == GlobMatchFrom(pattern, 1, key, 1)

Min(a, b) == IF a < b THEN a ELSE b

----------------------------------------------------------------------------
(* MemoryCache (L1) *)

\* A CacheEntry of the Map (size and hitCount are left out: nothing modelled
\* reads them).  hardExp is a history field, not program state: the expiry
\* that the write which introduced the value asked for.  Reads report it, also
\* for an entry they find expired (0 when there is no entry).
Entry(k, v, t, ttl, hard) ==
  [key |-> k, value |-> v, expiresAt |-> t + (IF ttl # 0 THEN ttl ELSE DefaultTTL),
   lastAccessed |-> t, createdAt |-> t, hardExp |-> hard]

IndexOf(c, k) ==
  IF \E i \in 1..Len(c) : c[i].key = k
  THEN CHOOSE i \in 1..Len(c) : c[i].key = k
  ELSE 0

RemoveAt(c, i) == SubSeq(c, 1, i - 1) \o SubSeq(c, i + 1, Len(c))

MapDelete(c, k) == IF IndexOf(c, k) = 0 THEN c ELSE RemoveAt(c, IndexOf(c, k))

\* A Map.set that leaves the entry of a key already present as it was.
MapSetKeepOld(c, e) == IF IndexOf(c, e.key) = 0 THEN Append(c, e) ELSE c

\* Map.prototype.set: an existing key keeps its position, a new key is appended.
MapSet(c, e) ==
  IF IndexOf(c, e.key) = 0 THEN Append(c, e)
  ELSE [c EXCEPT ![IndexOf(c, e.key)] = e]

\* evictLRU: the scan keeps the first entry whose lastAccessed is strictly
\* below the running minimum, which starts at Date.now(); 0 stands for the
\* initial oldestKey = ''.
RECURSIVE OldestFrom(_, _, _, _)
OldestFrom(c, i, oldestIdx, oldestTime) ==
  IF i > Len(c) THEN oldestIdx
  ELSE IF c[i].lastAccessed < oldestTime
       THEN OldestFrom(c, i + 1, i, c[i].lastAccessed)
       ELSE OldestFrom(c, i + 1, oldestIdx, oldestTime)

EvictLRU(c, t) ==
  LET victim == OldestFrom(c, 1, 0, t)
  IN IF victim # 0 THEN RemoveAt(c, victim) ELSE c

\* An expiry that slides with every read: measured from lastAccessed.
MemExpiredSliding(e, t) == t > e.lastAccessed + (e.expiresAt - e.createdAt)

\* The expiry test of get, has and cleanup: now > entry.expiresAt
MemExpired(e, t) == t > e.expiresAt

\* MemoryCache.get: [cache, value] (and the history field of the entry served)
MemGet(c, k, t) ==
  LET i == IndexOf(c, k)
  IN IF i = 0 THEN [cache |-> c, value |-> Null, hardExp |-> 0]
     ELSE IF MemExpired(c[i], t)
     THEN [cache |-> RemoveAt(c, i), value |-> Null, hardExp |-> c[i].hardExp]
     ELSE [cache |-> [c EXCEPT ![i].lastAccessed = t], value |-> c[i].value,
           hardExp |-> c[i].hardExp]

\* MemoryCache.set, ttl in ms (0 stands for an omitted or zero ttl: ttl || defaultTTL)
MemSet(c, k, v, ttl, t, hard) ==
  LET room == IF Len(c) >= maxSize /\ IndexOf(c, k) = 0 THEN EvictLRU(c, t) ELSE c
  IN MapSet(room, Entry(k, v, t, ttl, hard))

\* MemoryCache.has: [cache, found]
MemHas(c, k, t) ==
  LET i == IndexOf(c, k)
  IN IF i = 0 THEN [cache |-> c, found |-> FALSE, hardExp |-> 0]
     ELSE IF MemExpired(c[i], t)
     THEN [cache |-> RemoveAt(c, i), found |-> FALSE, hardExp |-> c[i].hardExp]
     ELSE [cache |-> c, found |-> TRUE, hardExp |-> c[i].hardExp]

\* MemoryCache.invalidatePattern: [cache, count]
MemInvalidatePattern(c, pattern) ==
  LET hit == {i \in 1..Len(c) : RegexTest(pattern, c[i].key)}
      F[i \in 0..Len(c)] ==
        IF i = 0 THEN <<>>
        ELSE IF i \in hit THEN F[i - 1] ELSE Append(F[i - 1], c[i])
  IN [cache |-> F[Len(c)], count |-> Cardinality(hit)]

\* MemoryCache.cleanup (the 60 s interval sweep)
MemCleanup(c, t) ==
  LET F[i \in 0..Len(c)] ==
        IF i = 0 THEN <<>>
        ELSE IF MemExpired(c[i], t) THEN F[i - 1] ELSE Append(F[i - 1], c[i])
  IN F[Len(c)]

MemKeys(c) == {c[i].key : i \in 1..Len(c)}

\* The Map holds k and the entry has not reached its expiresAt.
HeldL1(c, k, t) == IndexOf(c, k) # 0 /\ t <= c[IndexOf(c, k)].expiresAt

----------------------------------------------------------------------------
(* RedisCache (L2) *)

\* Dynamic-domain maps: the Redis key space.
MapPut(f, k, v) == [x \in DOMAIN f \cup {k} |-> IF x = k THEN v ELSE f[x]]
MapDrop(f, ks) == [x \in DOMAIN f \ ks |-> f[x]]

\* Redis native expiry (SETEX / EXPIRE): a key is gone once its time has come.
Unexpired(f, t) == [x \in {y \in DOMAIN f : f[y].px > t} |-> f[x]]

\* RedisCache.extractPatterns: key.split(':'), then every prefix of parts
\* joined by ':' followed by '*', shortest first.
PartEnds(key) == {j \in 0..Len(key) : j = Len(key) \/ key[j + 1] = ":"}

RECURSIVE PatternsFrom(_, _)
PatternsFrom(key, j) ==
  IF j > Len(key) THEN <<>>
  ELSE IF j \in PartEnds(key)
       THEN <<SubSeq(key, 1, j) \o <<"*">>>> \o PatternsFrom(key, j + 1)
       ELSE PatternsFrom(key, j + 1)

ExtractPatterns(key) == PatternsFrom(key, 0)

\* RedisCache.addToPattern: SADD + EXPIRE ttl + 60 for every pattern of the key.
RECURSIVE AddEach(_, _, _, _, _, _)
AddEach(ps, pats, i, key, ttl, t) ==
  IF i > Len(pats) THEN ps
  ELSE LET old == IF pats[i] \in DOMAIN ps THEN ps[pats[i]].members ELSE {}
           new == [members |-> old \cup {key},
                   px |-> t + (ttl + PatternGraceSeconds) * 1000]
       IN AddEach(MapPut(ps, pats[i], new), pats, i + 1, key, ttl, t)

AddToPattern(ps, key, ttl, t) == AddEach(ps, ExtractPatterns(key), 1, key, ttl, t)

\* What is stored under a key is either the JSON text of a CacheEntry, held
\* here as the record JSON.parse gives back, or text that is no JSON at all
\* (written by another client of the same Redis, or cut short): a record
\* without the fields of a CacheEntry.  JSON.parse throws on the latter.
ParseThrows(payload) == "value" \notin DOMAIN payload

\* RedisCache.get: [store, value].  A transport failure is caught and is a
\* miss; so is the SyntaxError of JSON.parse, by the same catch.
RedisGet(s, k, t, up) ==
  IF ~up \/ k \notin DOMAIN s THEN [store |-> s, value |-> Null, hardExp |-> 0]
  ELSE IF ParseThrows(s[k]) THEN [store |-> s, value |-> Null, hardExp |-> 0]
  ELSE IF t > s[k].expiresAt
  THEN [store |-> MapDrop(s, {k}), value |-> Null, hardExp |-> 0]
  ELSE [store |-> s, value |-> s[k].value, hardExp |-> s[k].expiresAt]

\* RedisCache.set, ttl in seconds: [store, patternSets, threw].  SETEX rejects a
\* ttl that is not positive; the error, like a transport failure, is rethrown.
RedisSet(s, ps, k, v, ttl, t, up) ==
  IF ~up \/ ttl <= 0 THEN [store |-> s, patternSets |-> ps, threw |-> TRUE]
  ELSE [store |-> MapPut(s, k, [value |-> v, expiresAt |-> t + ttl * 1000,
                                createdAt |-> t, px |-> t + ttl * 1000]),
        patternSets |-> AddToPattern(ps, k, ttl, t),
        threw |-> FALSE]

\* RedisCache.delete / has
RedisDelete(s, k, up) ==
  IF up /\ k \in DOMAIN s THEN [store |-> MapDrop(s, {k}), deleted |-> TRUE]
  ELSE [store |-> s, deleted |-> FALSE]

RedisHas(s, k, up) == up /\ k \in DOMAIN s

\* The name of a pattern set in the key space: `pattern:${pattern}`.
PatternSetKey(p) == <<"p", "a", "t", "t", "e", "r", "n", ":">> \o p

\* RedisCache.invalidatePattern: KEYS keyPrefix + pattern (a glob over the whole
\* key space, the pattern sets included), DEL of what it found, then
\* removeFromPattern.  [store, patternSets, count]
RedisInvalidatePattern(s, ps, pattern, up) ==
  LET dataKeys == {k \in DOMAIN s : GlobMatch(pattern, k)}
      setKeys == {p \in DOMAIN ps : GlobMatch(pattern, PatternSetKey(p))}
      n == Cardinality(dataKeys) + Cardinality(setKeys)
  IN IF ~up \/ n = 0 THEN [store |-> s, patternSets |-> ps, count |-> 0]
     ELSE [store |-> MapDrop(s, dataKeys),
           patternSets |-> MapDrop(ps, setKeys \cup {pattern}),
           count |-> n]

----------------------------------------------------------------------------
(* CacheService (the facade) *)

\* CacheOptions; ttl = 0 stands for an omitted ttl.
DefaultOpts == [skipMemory |-> FALSE, skipRedis |-> FALSE, ttl |-> 0]

\* The L1 lifetime CacheService.get gives an entry it copies from L2, ms.
PromoteTTL(opts) ==
  Min(IF opts.ttl # 0 THEN opts.ttl ELSE PromoteDefaultSeconds, MemoryCapSeconds) * 1000

\* The L1 lifetime CacheService.set gives an entry, ms.
MemoryTTL(ttl) == Min(ttl, MemoryCapSeconds) * 1000

\* CacheService.stats, and this.stats.<counter>++
NoStats == [memoryHits |-> 0, redisHits |-> 0, misses |-> 0]

Counted(stats, counter) == [stats EXCEPT ![counter] = @ + 1]

\* A get that asks Redis whatever L1 answered.
RedisConsultedAlways(opts, memoryValue) == ~opts.skipRedis

\* CacheService.get reaches `await redisCache.get(key)` when the L1 branch did
\* not return and skipRedis is not set.
RedisConsulted(opts, memoryValue) == ~opts.skipRedis /\ memoryValue = Null

\* CacheService.get: [cache, store, value, level], with what the call did:
\* whether it called redisCache.get, and the increments it made to stats.
SvcGetOp(c, s, k, opts, t, up) ==
  LET m == IF opts.skipMemory THEN [cache |-> c, value |-> Null, hardExp |-> 0]
           ELSE MemGet(c, k, t)
      asked == RedisConsulted(opts, m.value)
      r == IF asked THEN RedisGet(s, k, t, up)
           ELSE [store |-> s, value |-> Null, hardExp |-> 0]
  IN IF m.value # Null
     THEN [cache |-> m.cache, store |-> r.store, value |-> m.value, level |-> "memory",
           hardExp |-> m.hardExp, redisContacted |-> asked,
           stats |-> Counted(NoStats, "memoryHits")]
     ELSE IF r.value # Null
     THEN [cache |-> IF opts.skipMemory THEN m.cache
                     ELSE MemSet(m.cache, k, r.value, PromoteTTL(opts), t, r.hardExp),
           store |-> r.store, value |-> r.value, level |-> "redis",
           hardExp |-> r.hardExp, redisContacted |-> asked,
           stats |-> Counted(NoStats, "redisHits")]
     ELSE [cache |-> m.cache, store |-> r.store, value |-> Null, level |-> "miss",
           hardExp |-> 0, redisContacted |-> asked,
           stats |-> Counted(NoStats, "misses")]

\* CacheService.set, ttl in seconds: [cache, store, patternSets, threw].  The L1
\* write is done before the L2 write is awaited, so it stays when L2 throws.
SvcSetOp(c, s, ps, k, v, ttl, opts, t, up) ==
  LET r == IF opts.skipRedis THEN [store |-> s, patternSets |-> ps, threw |-> FALSE]
           ELSE RedisSet(s, ps, k, v, ttl, t, up)
  IN [cache |-> IF opts.skipMemory THEN c
                ELSE MemSet(c, k, v, MemoryTTL(ttl), t, t + ttl * 1000),
      store |-> r.store, patternSets |-> r.patternSets, threw |-> r.threw]

\* CacheService.delete: [cache, store, deleted]
SvcDeleteOp(c, s, k, up) ==
  [cache |-> MapDelete(c, k), store |-> RedisDelete(s, k, up).store,
   deleted |-> IndexOf(c, k) # 0 \/ RedisDelete(s, k, up).deleted]

\* CacheService.has: [cache, found]
SvcHasOp(c, s, k, t, up) ==
  [cache |-> MemHas(c, k, t).cache,
   found |-> MemHas(c, k, t).found \/ RedisHas(s, k, up)]

\* CacheService.invalidatePattern: [cache, store, patternSets, count]
SvcInvalidatePatternOp(c, s, ps, pattern, up) ==
  LET m == MemInvalidatePattern(c, pattern)
      r == RedisInvalidatePattern(s, ps, pattern, up)
  IN [cache |-> m.cache, store |-> r.store, patternSets |-> r.patternSets,
      count |-> m.count + r.count]

\* CacheService.getMultiple over a key array: the L1 reads in order, then one
\* pipelined L2 read of the misses (an expired payload is skipped, not deleted),
\* each L2 hit copied into L1 for 300000 ms.  [cache, values]
RECURSIVE GetMultipleL1(_, _, _, _)
GetMultipleL1(c, keys, i, t) ==
  IF i > Len(keys) THEN [cache |-> c, found |-> <<>>, missing |-> <<>>]
  ELSE LET m == MemGet(c, keys[i], t)
           rest == GetMultipleL1(m.cache, keys, i + 1, t)
       IN IF m.value # Null
          THEN [rest EXCEPT !.found = <<[key |-> keys[i], value |-> m.value,
                                         hardExp |-> m.hardExp]>> \o @]
          ELSE [rest EXCEPT !.missing = <<keys[i]>> \o @]

RedisGetMultipleHit(s, k, t, up) ==
  up /\ k \in DOMAIN s /\ ~ParseThrows(s[k]) /\ t <= s[k].expiresAt

RECURSIVE PromoteEach(_, _, _, _, _, _)
PromoteEach(c, s, missing, i, t, up) ==
  IF i > Len(missing) THEN [cache |-> c, found |-> <<>>]
  ELSE IF RedisGetMultipleHit(s, missing[i], t, up)
       THEN LET v == s[missing[i]].value
                rest == PromoteEach(MemSet(c, missing[i], v, GetMultiplePromoteMs, t,
                                           s[missing[i]].expiresAt),
                                    s, missing, i + 1, t, up)
            IN [rest EXCEPT !.found = <<[key |-> missing[i], value |-> v,
                                           hardExp |-> s[missing[i]].expiresAt]>> \o @]
       ELSE PromoteEach(c, s, missing, i + 1, t, up)

SvcGetMultipleOp(c, s, keys, t, up) ==
  LET l1 == GetMultipleL1(c, keys, 1, t)
      l2 == PromoteEach(l1.cache, s, l1.missing, 1, t, up)
  IN [cache |-> l2.cache, values |-> l1.found \o l2.found]

\* CacheService.setMultiple: every entry into L1 with Math.min(ttl || 300, 300)
\* seconds, then one pipelined SETEX per entry with ttl || 300 and no pattern
\* registration.  [cache, store, threw]
RECURSIVE SetMultipleL1(_, _, _, _)
SetMultipleL1(c, entries, i, t) ==
  IF i > Len(entries) THEN c
  ELSE SetMultipleL1(
         MemSet(c, entries[i].key, entries[i].value,
                Min(IF entries[i].ttl # 0 THEN entries[i].ttl ELSE PromoteDefaultSeconds,
                    MemoryCapSeconds) * 1000, t,
                t + (IF entries[i].ttl # 0 THEN entries[i].ttl ELSE RedisDefaultTTL) * 1000),
         entries, i + 1, t)

RECURSIVE RedisSetMultiple(_, _, _, _)
RedisSetMultiple(s, entries, i, t) ==
  IF i > Len(entries) THEN s
  ELSE LET ttl == IF entries[i].ttl # 0 THEN entries[i].ttl ELSE RedisDefaultTTL
       IN RedisSetMultiple(
            MapPut(s, entries[i].key,
                   [value |-> entries[i].value, expiresAt |-> t + ttl * 1000,
                    createdAt |-> t, px |-> t + ttl * 1000]),
            entries, i + 1, t)

SvcSetMultipleOp(c, s, entries, t, up) ==
  [cache |-> SetMultipleL1(c, entries, 1, t),
   store |-> IF up THEN RedisSetMultiple(s, entries, 1, t) ELSE s,
   threw |-> ~up]

----------------------------------------------------------------------------
(* State shared by the specifications *)

\* lastOp: the operation that completed last, its arguments and what it
\* returned.  afterSet is the value written by the set that immediately
\* preceded a get of the same key (no operation and no clock step in between);
\* atCapacity says that this set found the Map full and the key absent;
\* hardExp is the history field of the entry a read was served from;
\* l1Before and l2Before are the keys each tier held when an invalidation began.
\* For a getWithSWR call that returned: swr are its options, path the branch it
\* took, window and age where the key stood (by the clock) when the call began,
\* stored the value last stored under the key then, cold whether no tier held
\* the key then and nobody else wrote it since, marker whether the call found
\* the key in processingKeys, launched whether it started a background fetch,
\* count the fetcher invocations it made itself, value what its fetcher
\* resolved with, failed whether its fetcher rejected, and prior the value a
\* tier could still serve when the fetcher rejected.  up says whether the Redis
\* transport answered while an invalidation or a health check ran.  For a
\* CacheService.get: opts are its options, redisContacted whether it called
\* redisCache.get, stats the increments it made to the counters, and l1Before
\* the keys L1 held unexpired when it began.
NoOp == [op |-> "none", key |-> <<>>, value |-> Null, result |-> Null,
         afterSet |-> Null, atCapacity |-> FALSE, count |-> 0, hardExp |-> 0,
         level |-> "none", values |-> <<>>, l1Before |-> {}, l2Before |-> {},
         swr |-> [freshTTL |-> 0, staleTTL |-> 0], path |-> "none",
         window |-> "none", age |-> -1, stored |-> Null, cold |-> FALSE,
         marker |-> FALSE, launched |-> FALSE, failed |-> FALSE, prior |-> Null,
         up |-> TRUE, opts |-> DefaultOpts, redisContacted |-> FALSE,
         stats |-> NoStats]

Op(name, k, v, res) == [NoOp EXCEPT !.op = name, !.key = k, !.value = v, !.result = res]

JustSet(k, setOps) ==
  IF lastOp.op \in setOps /\ lastOp.key = k THEN lastOp.value ELSE Null

JustSetAtCapacity(k, setOps) ==
  lastOp.op \in setOps /\ lastOp.key = k /\ lastOp.atCapacity

AtCapacity(k) == Len(cache) >= maxSize /\ IndexOf(cache, k) = 0

InitWith(size) ==
  /\ now = 0
  /\ cache = <<>>
  /\ store = <<>>
  /\ patternSets = <<>>
  /\ redisUp = TRUE
  /\ processingKeys = {}
  /\ calls = <<>>
  /\ bgTasks = <<>>
  /\ fetchLog = <<>>
  /\ lastOp = NoOp
  /\ maxSize = size
  /\ dependencies = <<>>
  /\ depCall = <<>>
  /\ processingQueue = <<>>
  /\ preCalls = <<>>
  /\ warm = <<>>
  /\ setCalls = <<>>

\* The clock advances by one second; Redis drops what has reached its expiry.
Tick(maxTicks) ==
  /\ now < maxTicks * 1000
  /\ now' = now + 1000
  /\ store' = Unexpired(store, now')
  /\ patternSets' = Unexpired(patternSets, now')
  /\ lastOp' = Op("tick", <<>>, Null, Null)
  /\ UNCHANGED <<cache, redisUp, processingKeys, calls, bgTasks, fetchLog,
                 maxSize, dependencies, depCall,
            processingQueue, preCalls, warm, setCalls>>

----------------------------------------------------------------------------
(* SpecMem: the MemoryCache used on its own *)

MemKeySet == {K_ab1, K_ax}
MemTTLs == {0, 1000, 5000}
MemPatterns == {P_abStar}

L1Only == <<store, patternSets, redisUp, processingKeys, calls, bgTasks, fetchLog,
            maxSize, dependencies, depCall,
            processingQueue, preCalls, warm, setCalls>>

MemSetAct(k, v, ttl) ==
  /\ cache' = MemSet(cache, k, v, ttl, now, now + (IF ttl # 0 THEN ttl ELSE DefaultTTL))
  /\ lastOp' = [Op("memSet", k, v, Null) EXCEPT !.atCapacity = AtCapacity(k)]
  /\ UNCHANGED <<now, L1Only>>

MemGetAct(k) ==
  \E r \in {MemGet(cache, k, now)} :
     /\ cache' = r.cache
     /\ lastOp' = [Op("memGet", k, Null, r.value)
                     EXCEPT !.afterSet = JustSet(k, {"memSet"}),
                            !.atCapacity = JustSetAtCapacity(k, {"memSet"}),
                            !.hardExp = r.hardExp]
     /\ UNCHANGED <<now, L1Only>>

MemHasAct(k) ==
  \E r \in {MemHas(cache, k, now)} :
     /\ cache' = r.cache
     /\ lastOp' = [Op("memHas", k, Null, IF r.found THEN "true" ELSE "false")
                     EXCEPT !.hardExp = r.hardExp]
     /\ UNCHANGED <<now, L1Only>>

MemDeleteAct(k) ==
  /\ cache' = MapDelete(cache, k)
  /\ lastOp' = Op("memDelete", k, Null, IF IndexOf(cache, k) # 0 THEN "true" ELSE "false")
  /\ UNCHANGED <<now, L1Only>>

MemInvalidatePatternAct(p) ==
  \E r \in {MemInvalidatePattern(cache, p)} :
     /\ cache' = r.cache
     /\ lastOp' = [Op("memInvalidatePattern", p, Null, Null)
                     EXCEPT !.count = r.count, !.l1Before = MemKeys(cache)]
     /\ UNCHANGED <<now, L1Only>>

MemCleanupAct ==
  /\ cache' = MemCleanup(cache, now)
  /\ lastOp' = Op("memCleanup", <<>>, Null, Null)
  /\ UNCHANGED <<now, L1Only>>

InitMem == InitWith(MaxSizeMem)

NextMem ==
  \/ \E k \in MemKeySet, v \in Values, ttl \in MemTTLs : MemSetAct(k, v, ttl)
  \/ \E k \in MemKeySet : MemGetAct(k)
  \/ \E k \in MemKeySet : MemHasAct(k)
  \/ \E k \in MemKeySet : MemDeleteAct(k)
  \/ \E p \in MemPatterns : MemInvalidatePatternAct(p)
  \/ MemCleanupAct
  \/ Tick(MaxTicksMem)

SpecMem == InitMem /\ [][NextMem]_vars

----------------------------------------------------------------------------
(* Spec: the CacheService facade over both tiers, one operation at a time *)

SvcKeys == {K_ab1, K_ax}
SvcTTLs == {1}
SvcSetOpts == {DefaultOpts, [DefaultOpts EXCEPT !.skipMemory = TRUE]}
SvcGetOpts == {DefaultOpts}
SvcPatterns == {P_abStar}
SvcKeyLists == {<<K_ab1, K_ax>>}
SvcEntryLists == {<<[key |-> K_ab1, value |-> "A", ttl |-> 1],
                    [key |-> K_ax, value |-> "B", ttl |-> 0]>>}

SvcOnly == <<redisUp, processingKeys, calls, bgTasks, fetchLog, maxSize,
             dependencies, depCall,
            processingQueue, preCalls, warm, setCalls>>

SvcRest == <<processingKeys, calls, bgTasks, fetchLog, maxSize, dependencies, depCall,
            processingQueue, preCalls, warm, setCalls>>

SvcSetAct(k, v, ttl, opts) ==
  \E r \in {SvcSetOp(cache, store, patternSets, k, v, ttl, opts, now, redisUp)} :
     /\ cache' = r.cache
     /\ store' = r.store
     /\ patternSets' = r.patternSets
     /\ lastOp' = [Op(IF opts = DefaultOpts THEN "svcSet" ELSE "svcSetOpts", k, v,
                      IF r.threw THEN "throw" ELSE "ok")
                     EXCEPT !.atCapacity = AtCapacity(k)]
     /\ UNCHANGED <<now, SvcOnly>>

SvcGetAct(k, opts) ==
  \E r \in {SvcGetOp(cache, store, k, opts, now, redisUp)} :
     /\ cache' = r.cache
     /\ store' = r.store
     /\ lastOp' = [Op(IF opts = DefaultOpts THEN "svcGet" ELSE "svcGetOpts", k, Null, r.value)
                     EXCEPT !.afterSet = JustSet(k, {"svcSet"}),
                            !.atCapacity = JustSetAtCapacity(k, {"svcSet"}),
                            !.hardExp = r.hardExp,
                            !.level = r.level,
                            !.opts = opts,
                            !.redisContacted = r.redisContacted,
                            !.stats = r.stats,
                            !.l1Before = {x \in MemKeys(cache) : HeldL1(cache, x, now)}]
     /\ UNCHANGED <<now, patternSets, SvcOnly>>

SvcGetMultipleAct(keys) ==
  \E r \in {SvcGetMultipleOp(cache, store, keys, now, redisUp)} :
     /\ cache' = r.cache
     /\ lastOp' = [Op("svcGetMultiple", keys, Null, Null) EXCEPT !.values = r.values]
     /\ UNCHANGED <<now, store, patternSets, SvcOnly>>

SvcSetMultipleAct(entries) ==
  \E r \in {SvcSetMultipleOp(cache, store, entries, now, redisUp)} :
     /\ cache' = r.cache
     /\ store' = r.store
     /\ lastOp' = Op("svcSetMultiple", entries[1].key, entries[1].value,
                     IF r.threw THEN "throw" ELSE "ok")
     /\ UNCHANGED <<now, patternSets, SvcOnly>>

SvcDeleteAct(k) ==
  \E r \in {SvcDeleteOp(cache, store, k, redisUp)} :
     /\ cache' = r.cache
     /\ store' = r.store
     /\ lastOp' = Op("svcDelete", k, Null, IF r.deleted THEN "true" ELSE "false")
     /\ UNCHANGED <<now, patternSets, SvcOnly>>

SvcHasAct(k) ==
  \E r \in {SvcHasOp(cache, store, k, now, redisUp)} :
     /\ cache' = r.cache
     /\ lastOp' = Op("svcHas", k, Null, IF r.found THEN "true" ELSE "false")
     /\ UNCHANGED <<now, store, patternSets, SvcOnly>>

SvcInvalidatePatternAct(p) ==
  \E r \in {SvcInvalidatePatternOp(cache, store, patternSets, p, redisUp)} :
     /\ cache' = r.cache
     /\ store' = r.store
     /\ patternSets' = r.patternSets
     /\ lastOp' = [Op("svcInvalidatePattern", p, Null, Null)
                     EXCEPT !.count = r.count, !.l1Before = MemKeys(cache),
                            !.l2Before = DOMAIN store, !.up = redisUp]
     /\ UNCHANGED <<now, SvcOnly>>

\* The Redis transport fails or comes back.
RedisFlip ==
  /\ redisUp' = ~redisUp
  /\ lastOp' = Op("redisFlip", <<>>, Null, Null)
  /\ UNCHANGED <<now, cache, store, patternSets, SvcRest>>

Init == InitWith(MaxSizeSvc)

Next ==
  \/ \E k \in SvcKeys, v \in Values, ttl \in SvcTTLs, o \in SvcSetOpts : SvcSetAct(k, v, ttl, o)
  \/ \E k \in SvcKeys, o \in SvcGetOpts : SvcGetAct(k, o)
  \/ \E ks \in SvcKeyLists : SvcGetMultipleAct(ks)
  \/ \E es \in SvcEntryLists : SvcSetMultipleAct(es)
  \/ RedisFlip
  \/ Tick(MaxTicksSvc)

Spec == Init /\ [][Next]_vars

----------------------------------------------------------------------------
(* SpecSetGet: set and get of both the MemoryCache and the facade *)

InitSetGet == InitWith(MaxSizeSetGet)

NextSetGet ==
  \/ \E k \in SvcKeys, v \in Values, ttl \in MemTTLs : MemSetAct(k, v, ttl)
  \/ \E k \in SvcKeys : MemGetAct(k)
  \/ \E k \in SvcKeys, v \in Values, ttl \in SvcTTLs : SvcSetAct(k, v, ttl, DefaultOpts)
  \/ \E k \in SvcKeys : SvcGetAct(k, DefaultOpts)
  \/ RedisFlip
  \/ Tick(MaxTicksSetGet)

SpecSetGet == InitSetGet /\ [][NextSetGet]_vars

----------------------------------------------------------------------------
(* SpecPat: pattern invalidation on each tier and through the facade *)

PatKeys == {K_ab1, K_ab2, K_ax, K_abcx, K_aab1}
PatPatterns == {P_abStar, P_aStar}

RedisInvalidatePatternAct(p) ==
  \E r \in {RedisInvalidatePattern(store, patternSets, p, redisUp)} :
     /\ store' = r.store
     /\ patternSets' = r.patternSets
     /\ lastOp' = [Op("redisInvalidatePattern", p, Null, Null)
                     EXCEPT !.count = r.count, !.l2Before = DOMAIN store]
     /\ UNCHANGED <<now, cache, SvcOnly>>

InitPat == InitWith(MaxSizePat)

NextPat ==
  \/ \E k \in PatKeys : SvcSetAct(k, "A", 1, DefaultOpts)
  \/ \E k \in PatKeys : SvcDeleteAct(k)
  \/ \E k \in PatKeys : SvcHasAct(k)
  \/ \E p \in PatPatterns : MemInvalidatePatternAct(p)
  \/ \E p \in PatPatterns : RedisInvalidatePatternAct(p)
  \/ \E p \in PatPatterns : SvcInvalidatePatternAct(p)

SpecPat == InitPat /\ [][NextPat]_vars

----------------------------------------------------------------------------
(* SpecSWR: getWithSWR, its background revalidations, and the clock *)

\* CacheService.getWithMetadata: [cache, found, value, createdAt].  An L1 hit
\* carries no metadata and is taken to be 30 s old; otherwise the raw L2
\* payload is read, a transport failure being swallowed.
GetWithMetadata(c, s, k, t, up) ==
  LET m == MemGet(c, k, t)
  IN IF m.value # Null
     THEN [cache |-> m.cache, found |-> TRUE, value |-> m.value,
           createdAt |-> t - AssumedAgeMs]
     ELSE IF up /\ k \in DOMAIN s
     THEN [cache |-> m.cache, found |-> TRUE, value |-> s[k].value,
           createdAt |-> s[k].createdAt]
     ELSE [cache |-> m.cache, found |-> FALSE, value |-> Null, createdAt |-> 0]

\* revalidateInBackground, the end of the task: a delete that is skipped when
\* the try block threw.
DeleteOnSuccess(keys, k, threw) == IF threw THEN keys ELSE keys \ {k}

\* revalidateInBackground: finally { this.processingKeys.delete(key) }
FinallyDelete(keys, k, threw) == keys \ {k}

\* revalidateInBackground: this.processingKeys.has(key), with no await before
\* the add that follows it.
MarkerHeldNever(keys, k) == FALSE

MarkerHeld(keys, k) == k \in keys

\* The ttl getWithSWR hands to fetchAndCache and to revalidateInBackground.
StoreTTLStale(o) == o.staleTTL

StoreTTL(o) == o.freshTTL

\* fetchAndCache, catch branch: const stale = await this.get(key)
FallbackGetNone(c, s, k, t, up) ==
  [cache |-> c, store |-> s, value |-> Null, level |-> "miss", hardExp |-> 0]

FallbackGet(c, s, k, t, up) == SvcGetOp(c, s, k, DefaultOpts, t, up)

SWRKeys == {K_ab1}
SWROptions == {[freshTTL |-> 1, staleTTL |-> 3], [freshTTL |-> 5, staleTTL |-> 31]}
PlainTTLs == {5}
\* A plain set that writes L2 alone, as does a set by another instance.
PlainOpts == {[DefaultOpts EXCEPT !.skipMemory = TRUE]}

\* The fetcher of a key resolves with "A" when invoked first, with "B" after.
FetcherValue(n) == IF n = 1 THEN "A" ELSE "B"

\* What is recorded of a step that returns nothing to a getWithSWR caller.
Step == Op("step", <<>>, Null, Null)

IdleCall == [pc |-> "idle", key |-> <<>>, swr |-> NoOp.swr, found |-> FALSE, nth |-> 0,
             value |-> Null, createdAt |-> 0, window |-> "none", age |-> -1,
             stored |-> Null, cold |-> FALSE]

\* History of the key: when it was last stored, by whom (fresh = 0: a plain
\* set), with what value; how often its fetcher has been invoked, how often
\* it has been set plainly, and how its background revalidations ended.
NoLog == [storedAt |-> -1, fresh |-> 0, value |-> Null, count |-> 0, plain |-> 0,
          bgEnded |-> {}]

BgEnded(log, k, how) == [log EXCEPT ![k].bgEnded = @ \cup {how}]

Logged(log, k, v, fresh, t) ==
  [log EXCEPT ![k] = [@ EXCEPT !.storedAt = t, !.fresh = fresh, !.value = v]]

Invoked(log, k) == [log EXCEPT ![k].count = @ + 1]

\* Where the key stands by the clock, for a call with options o.
WindowOf(log, k, o, t) ==
  IF log[k].storedAt < 0 \/ log[k].fresh # o.freshTTL THEN "none"
  ELSE IF t - log[k].storedAt < o.freshTTL * 1000 THEN "fresh"
  ELSE IF t - log[k].storedAt < o.staleTTL * 1000 THEN "stale"
  ELSE "expired"

\* The value a tier can serve for k, L1 first.
Readable(c, s, k, t, up) ==
  IF HeldL1(c, k, t) THEN c[IndexOf(c, k)].value
  ELSE IF up /\ k \in DOMAIN s THEN s[k].value
  ELSE Null

\* Another writer stored k: the calls under way for k no longer run alone.
Disturbed(cs, k, self) ==
  [j \in DOMAIN cs |-> IF j # self /\ cs[j].key = k THEN [cs[j] EXCEPT !.cold = FALSE]
                       ELSE cs[j]]

Returned(c, path, res) ==
  [Op("swrReturn", c.key, Null, res)
     EXCEPT !.swr = c.swr, !.path = path, !.window = c.window, !.age = c.age,
            !.stored = c.stored, !.cold = c.cold]

SWRRest == <<maxSize, dependencies, depCall,
            processingQueue, preCalls, warm, setCalls>>

\* getWithSWR up to its first await: getWithMetadata.
SWRStart(i, k, o) ==
  /\ calls[i].pc = "idle"
  /\ \A j \in 1..(i - 1) : calls[j].pc # "idle"
  /\ \E m \in {GetWithMetadata(cache, store, k, now, redisUp)} :
       /\ cache' = m.cache
       /\ calls' = [calls EXCEPT ![i] =
            [pc |-> "decide", key |-> k, swr |-> o, found |-> m.found, nth |-> 0,
             value |-> m.value, createdAt |-> m.createdAt,
             window |-> WindowOf(fetchLog, k, o, now),
             age |-> IF fetchLog[k].storedAt < 0 THEN -1 ELSE now - fetchLog[k].storedAt,
             stored |-> fetchLog[k].value,
             cold |-> ~HeldL1(cache, k, now) /\ k \notin DOMAIN store]]
  /\ lastOp' = Step
  /\ UNCHANGED <<now, store, patternSets, redisUp, processingKeys, bgTasks,
                 fetchLog, SWRRest>>

\* const age = Date.now() - cached.createdAt; age < freshTTL * 1000
SWRReturnFresh(i) ==
  /\ calls[i].pc = "decide"
  /\ calls[i].found
  /\ now - calls[i].createdAt < calls[i].swr.freshTTL * 1000
  /\ calls' = [calls EXCEPT ![i] = IdleCall]
  /\ lastOp' = Returned(calls[i], "fresh", calls[i].value)
  /\ UNCHANGED <<now, cache, store, patternSets, redisUp, processingKeys, bgTasks,
                 fetchLog, SWRRest>>

\* age < staleTTL * 1000: revalidateInBackground runs up to its await of the
\* fetcher (marker test, add, fetcher invoked), then the cached value is returned.
SWRReturnStale(i) ==
  LET k == calls[i].key
      held == MarkerHeld(processingKeys, k)
  IN /\ calls[i].pc = "decide"
     /\ calls[i].found
     /\ now - calls[i].createdAt >= calls[i].swr.freshTTL * 1000
     /\ now - calls[i].createdAt < calls[i].swr.staleTTL * 1000
     /\ held \/ fetchLog[k].count < MaxFetches
     /\ IF held
        THEN UNCHANGED <<processingKeys, bgTasks, fetchLog>>
        ELSE /\ processingKeys' = processingKeys \cup {k}
             /\ bgTasks' = Append(bgTasks, [key |-> k, ttl |-> StoreTTL(calls[i].swr),
                                            nth |-> fetchLog[k].count + 1])
             /\ fetchLog' = Invoked(fetchLog, k)
     /\ calls' = [calls EXCEPT ![i] = IdleCall]
     /\ lastOp' = [Returned(calls[i], "stale", calls[i].value)
                     EXCEPT !.marker = k \in processingKeys, !.launched = ~held,
                            !.count = IF held THEN 0 ELSE 1]
     /\ UNCHANGED <<now, cache, store, patternSets, redisUp, SWRRest>>

\* Neither: fetchAndCache invokes the fetcher and awaits it.
SWRFetch(i) ==
  LET k == calls[i].key
  IN /\ calls[i].pc = "decide"
     /\ ~calls[i].found \/ now - calls[i].createdAt >= calls[i].swr.staleTTL * 1000
     /\ fetchLog[k].count < MaxFetches
     /\ calls' = [calls EXCEPT ![i].pc = "fetching", ![i].nth = fetchLog[k].count + 1]
     /\ fetchLog' = Invoked(fetchLog, k)
     /\ lastOp' = Step
     /\ UNCHANGED <<now, cache, store, patternSets, redisUp, processingKeys, bgTasks,
                    SWRRest>>

\* The fetcher resolves: await this.set(key, data, ttl); return data.
\* When the set throws, the catch branch reads the key back.
SWRFetchOk(i) ==
  LET k == calls[i].key
      v == FetcherValue(calls[i].nth)
  IN /\ calls[i].pc = "fetching"
     /\ \E w \in {SvcSetOp(cache, store, patternSets, k, v, StoreTTL(calls[i].swr),
                           DefaultOpts, now, redisUp)} :
        \E g \in {FallbackGet(w.cache, w.store, k, now, redisUp)} :
          /\ cache' = IF w.threw THEN g.cache ELSE w.cache
          /\ store' = IF w.threw THEN g.store ELSE w.store
          /\ patternSets' = w.patternSets
          /\ lastOp' = [Returned(calls[i],
                                 IF ~w.threw THEN "fetched"
                                 ELSE IF g.value # Null THEN "fallback" ELSE "error",
                                 IF w.threw THEN g.value ELSE v)
                          EXCEPT !.value = v, !.count = 1]
     /\ fetchLog' = Logged(fetchLog, k, v, calls[i].swr.freshTTL, now)
     /\ calls' = [Disturbed(calls, k, i) EXCEPT ![i] = IdleCall]
     /\ UNCHANGED <<now, redisUp, processingKeys, bgTasks, SWRRest>>

\* The fetcher rejects: the catch branch returns what get(key) finds, or rethrows.
SWRFetchFail(i) ==
  LET k == calls[i].key
  IN /\ calls[i].pc = "fetching"
     /\ \E g \in {FallbackGet(cache, store, k, now, redisUp)} :
          /\ cache' = g.cache
          /\ store' = g.store
          /\ lastOp' = [Returned(calls[i],
                                 IF g.value # Null THEN "fallback" ELSE "error",
                                 g.value)
                          EXCEPT !.count = 1, !.failed = TRUE,
                                 !.prior = Readable(cache, store, k, now, redisUp)]
     /\ calls' = [calls EXCEPT ![i] = IdleCall]
     /\ UNCHANGED <<now, patternSets, redisUp, processingKeys, bgTasks, fetchLog,
                    SWRRest>>

\* A background fetcher resolves: await this.set(key, fresh, ttl), whose
\* error is logged; finally the marker is removed.
BgFetchOk(j) ==
  LET k == bgTasks[j].key
      v == FetcherValue(bgTasks[j].nth)
  IN /\ j \in DOMAIN bgTasks
     /\ \E w \in {SvcSetOp(cache, store, patternSets, k, v, bgTasks[j].ttl,
                           DefaultOpts, now, redisUp)} :
          /\ cache' = w.cache
          /\ store' = w.store
          /\ patternSets' = w.patternSets
          /\ processingKeys' = FinallyDelete(processingKeys, k, w.threw)
          /\ fetchLog' = BgEnded(Logged(fetchLog, k, v, bgTasks[j].ttl, now), k,
                                 IF w.threw THEN "setFailed" ELSE "stored")
     /\ calls' = Disturbed(calls, k, 0)
     /\ bgTasks' = RemoveAt(bgTasks, j)
     /\ lastOp' = Step
     /\ UNCHANGED <<now, redisUp, SWRRest>>

\* A background fetcher rejects: logged; finally the marker is removed.
BgFetchFail(j) ==
  /\ j \in DOMAIN bgTasks
  /\ processingKeys' = FinallyDelete(processingKeys, bgTasks[j].key, TRUE)
  /\ fetchLog' = BgEnded(fetchLog, bgTasks[j].key, "fetchFailed")
  /\ bgTasks' = RemoveAt(bgTasks, j)
  /\ lastOp' = Step
  /\ UNCHANGED <<now, cache, store, patternSets, redisUp, calls, SWRRest>>

\* CacheService.set called by another part of the program.
SWRPlainSet(k, v, ttl, opts) ==
  /\ \E w \in {SvcSetOp(cache, store, patternSets, k, v, ttl, opts, now, redisUp)} :
       /\ cache' = w.cache
       /\ store' = w.store
       /\ patternSets' = w.patternSets
  /\ fetchLog[k].plain < MaxPlainSets
  /\ fetchLog' = [Logged(fetchLog, k, v, 0, now) EXCEPT ![k].plain = @ + 1]
  /\ calls' = Disturbed(calls, k, 0)
  /\ lastOp' = Step
  /\ UNCHANGED <<now, redisUp, processingKeys, bgTasks, SWRRest>>

SWRRedisFlip ==
  /\ redisUp' = ~redisUp
  /\ lastOp' = Step
  /\ UNCHANGED <<now, cache, store, patternSets, processingKeys, calls, bgTasks,
                 fetchLog, SWRRest>>

SWRTick ==
  /\ now < MaxTicksSWR * 1000
  /\ now' = now + 1000
  /\ store' = Unexpired(store, now')
  /\ patternSets' = Unexpired(patternSets, now')
  /\ lastOp' = Step
  /\ UNCHANGED <<cache, redisUp, processingKeys, calls, bgTasks, fetchLog, SWRRest>>

InitSWR ==
  /\ now = 0
  /\ cache = <<>>
  /\ store = <<>>
  /\ patternSets = <<>>
  /\ redisUp = TRUE
  /\ processingKeys = {}
  /\ calls = [i \in 1..NumCalls |-> IdleCall]
  /\ bgTasks = <<>>
  /\ fetchLog = [k \in SWRKeys |-> NoLog]
  /\ lastOp = NoOp
  /\ maxSize = MaxSizeSWR
  /\ dependencies = <<>>
  /\ depCall = <<>>
  /\ processingQueue = <<>>
  /\ preCalls = <<>>
  /\ warm = <<>>
  /\ setCalls = <<>>

NextSWR ==
  \/ \E i \in 1..NumCalls, k \in SWRKeys, o \in SWROptions : SWRStart(i, k, o)
  \/ \E i \in 1..NumCalls : SWRReturnFresh(i)
  \/ \E i \in 1..NumCalls : SWRReturnStale(i)
  \/ \E i \in 1..NumCalls : SWRFetch(i)
  \/ \E i \in 1..NumCalls : SWRFetchOk(i)
  \/ \E i \in 1..NumCalls : SWRFetchFail(i)
  \/ \E j \in 1..NumCalls : BgFetchOk(j)
  \/ \E j \in 1..NumCalls : BgFetchFail(j)
  \/ \E k \in SWRKeys, ttl \in PlainTTLs, opts \in PlainOpts : SWRPlainSet(k, "C", ttl, opts)
  \/ SWRRedisFlip
  \/ SWRTick

SpecSWR == InitSWR /\ [][NextSWR]_vars

----------------------------------------------------------------------------
(* SpecHang: getWithSWR with fetchers that need not settle.  The steps the   *)
(* program takes by itself are weakly fair and requests keep arriving; when  *)
(* a fetcher resolves or rejects is up to the fetcher.  The clock stands     *)
(* still, so the entry stored first stays in L1.                             *)

HangOptions == {[freshTTL |-> 5, staleTTL |-> 31], [freshTTL |-> 31, staleTTL |-> 60]}

HangArrive == \E i \in 1..NumCalls, k \in SWRKeys, o \in HangOptions : SWRStart(i, k, o)

NextHang ==
  \/ HangArrive
  \/ \E i \in 1..NumCalls : SWRReturnFresh(i)
  \/ \E i \in 1..NumCalls : SWRReturnStale(i)
  \/ \E i \in 1..NumCalls : SWRFetch(i)
  \/ \E i \in 1..NumCalls : SWRFetchOk(i)
  \/ \E i \in 1..NumCalls : SWRFetchFail(i)
  \/ \E j \in 1..NumCalls : BgFetchOk(j)
  \/ \E j \in 1..NumCalls : BgFetchFail(j)

SpecHang ==
  /\ InitSWR
  /\ [][NextHang]_vars
  /\ WF_vars(HangArrive)
  /\ \A i \in 1..NumCalls :
       /\ WF_vars(SWRReturnFresh(i))
       /\ WF_vars(SWRReturnStale(i))
       /\ WF_vars(SWRFetch(i))

----------------------------------------------------------------------------
(* SpecConfig: getWithSWR called with options of either order *)

\* The options argument of a call: a pair in order, and one with
\* freshTTL > staleTTL.
ConfigOptions == {[freshTTL |-> 5, staleTTL |-> 31], [freshTTL |-> 31, staleTTL |-> 5]}

NextConfig ==
  \/ \E i \in 1..NumCalls, k \in SWRKeys, o \in ConfigOptions : SWRStart(i, k, o)
  \/ \E i \in 1..NumCalls : SWRReturnFresh(i)
  \/ \E i \in 1..NumCalls : SWRReturnStale(i)
  \/ \E i \in 1..NumCalls : SWRFetch(i)
  \/ \E i \in 1..NumCalls : SWRFetchOk(i)
  \/ \E i \in 1..NumCalls : SWRFetchFail(i)
  \/ \E j \in 1..NumCalls : BgFetchOk(j)
  \/ \E j \in 1..NumCalls : BgFetchFail(j)

SpecConfig == InitSWR /\ [][NextConfig]_vars

----------------------------------------------------------------------------
(* SpecDep: CacheDependencyManager over the facade *)

DepNodes == {P_aStar, P_abStar, P_ab1}
DepKeys == {K_ab1, K_ax}

\* this.dependencies.get(key), an absent key having no dependents
DependentsOf(deps, key) == IF key \in DOMAIN deps THEN deps[key] ELSE {}

\* addDependency: the Set of the dependency, created when absent, gains the dependent.
AddDependencyOp(deps, dependent, dependency) ==
  MapPut(deps, dependency, DependentsOf(deps, dependency) \cup {dependent})

\* collectDependents: if (!result.has(dependent))
NotYetCollectedAlways(result, d) == TRUE

NotYetCollected(result, d) == \A n \in 1..Len(result) : result[n] # d

\* What can be reached from key along dependency -> dependent.
RECURSIVE ReachFrom(_, _)
ReachFrom(deps, S) ==
  LET N == S \cup UNION {DependentsOf(deps, x) : x \in S}
  IN IF N = S THEN S ELSE ReachFrom(deps, N)

RECURSIVE SumCounts(_, _)
SumCounts(log, n) == IF n = 0 THEN 0 ELSE log[n].count + SumCounts(log, n - 1)

\* One invalidateWithDependencies call: toInvalidate in insertion order, the
\* frames of collectDependents (key, dependents still to visit), and the
\* history of the call: the map it began with, the steps collectDependents
\* took, and the invalidatePattern calls made.
IdleDep == [pc |-> "idle", key |-> <<>>, graph |-> <<>>, toInvalidate |-> <<>>,
            stack |-> <<>>, idx |-> 0, totalInvalidated |-> 0, steps |-> 0,
            invalidated |-> <<>>]

DepRest == <<now, redisUp, processingKeys, calls, bgTasks, fetchLog, maxSize,
            processingQueue, preCalls, warm, setCalls>>

AddDependency(dependent, dependency) ==
  /\ depCall.pc = "idle"
  /\ dependencies' = AddDependencyOp(dependencies, dependent, dependency)
  /\ lastOp' = Step
  /\ UNCHANGED <<cache, store, patternSets, depCall, DepRest>>

\* invalidateWithDependencies: new Set([key]), then collectDependents(key, ...)
InvalidateWithDependencies(key) ==
  /\ depCall.pc = "idle"
  /\ depCall' = [IdleDep EXCEPT !.pc = "collecting", !.key = key,
                                !.graph = dependencies,
                                !.toInvalidate = <<key>>,
                                !.stack = <<[key |-> key,
                                             todo |-> DependentsOf(dependencies, key)]>>]
  /\ lastOp' = Step
  /\ UNCHANGED <<cache, store, patternSets, dependencies, DepRest>>

\* collectDependents, one turn of its loop in the innermost call: the next
\* dependent is added and descended into when it is new; a loop that is over
\* returns to the caller, the outermost to the for-of over toInvalidate.
CollectDependents ==
  LET top == depCall.stack[Len(depCall.stack)]
      below == SubSeq(depCall.stack, 1, Len(depCall.stack) - 1)
  IN /\ depCall.pc = "collecting"
     /\ depCall.steps < MaxDepSteps
     /\ IF top.todo = {}
        THEN depCall' = [depCall EXCEPT !.stack = below, !.steps = @ + 1,
                           !.pc = IF below = <<>> THEN "invalidating" ELSE "collecting",
                           !.idx = 1]
        ELSE \E d \in top.todo :
               LET rest == Append(below, [top EXCEPT !.todo = @ \ {d}])
               IN IF NotYetCollected(depCall.toInvalidate, d)
                  THEN depCall' = [depCall EXCEPT
                         !.toInvalidate = Append(@, d), !.steps = @ + 1,
                         !.stack = Append(rest, [key |-> d,
                                     todo |-> DependentsOf(dependencies, d)])]
                  ELSE depCall' = [depCall EXCEPT !.stack = rest, !.steps = @ + 1]
     /\ lastOp' = Step
     /\ UNCHANGED <<cache, store, patternSets, dependencies, DepRest>>

\* const count = await cacheService.invalidatePattern(keyToInvalidate)
InvalidateNext ==
  /\ depCall.pc = "invalidating"
  /\ depCall.idx <= Len(depCall.toInvalidate)
  /\ \E r \in {SvcInvalidatePatternOp(cache, store, patternSets,
                                      depCall.toInvalidate[depCall.idx], redisUp)} :
       /\ cache' = r.cache
       /\ store' = r.store
       /\ patternSets' = r.patternSets
       /\ depCall' = [depCall EXCEPT
            !.idx = @ + 1, !.totalInvalidated = @ + r.count,
            !.invalidated = Append(@, [pattern |-> depCall.toInvalidate[depCall.idx],
                                       count |-> r.count])]
  /\ lastOp' = Step
  /\ UNCHANGED <<dependencies, DepRest>>

\* return totalInvalidated
DepReturn ==
  /\ depCall.pc = "invalidating"
  /\ depCall.idx > Len(depCall.toInvalidate)
  /\ depCall' = [depCall EXCEPT !.pc = "done"]
  /\ lastOp' = [Op("invalidateWithDependencies", depCall.key, Null, Null)
                  EXCEPT !.count = depCall.totalInvalidated]
  /\ UNCHANGED <<cache, store, patternSets, dependencies, DepRest>>

\* A writer fills the cache before the invalidation.
DepSet(k) ==
  /\ depCall.pc = "idle"
  /\ \E w \in {SvcSetOp(cache, store, patternSets, k, "A", 1, DefaultOpts, now, redisUp)} :
       /\ cache' = w.cache
       /\ store' = w.store
       /\ patternSets' = w.patternSets
  /\ lastOp' = Step
  /\ UNCHANGED <<dependencies, depCall, DepRest>>

InitDep ==
  /\ now = 0
  /\ cache = <<>>
  /\ store = <<>>
  /\ patternSets = <<>>
  /\ redisUp = TRUE
  /\ processingKeys = {}
  /\ calls = <<>>
  /\ bgTasks = <<>>
  /\ fetchLog = <<>>
  /\ lastOp = NoOp
  /\ maxSize = MaxSizeDep
  /\ dependencies = <<>>
  /\ depCall = IdleDep
  /\ processingQueue = <<>>
  /\ preCalls = <<>>
  /\ warm = <<>>
  /\ setCalls = <<>>

NextDep ==
  \/ \E a, b \in DepNodes : AddDependency(a, b)
  \/ \E key \in DepNodes : InvalidateWithDependencies(key)
  \/ CollectDependents
  \/ InvalidateNext
  \/ DepReturn
  \/ \E k \in DepKeys : DepSet(k)

SpecDep == InitDep /\ [][NextDep]_vars

----------------------------------------------------------------------------
(* SpecDown: the facade while the Redis transport fails and recovers *)

\* A getStats that counts no entry.
MemorySizeNone(c) == 0

\* MemoryCache.getStats().size: this.cache.size, the entries of the Map, the
\* expired ones that no read or sweep has removed yet included.
MemorySize(c) == Len(c)

\* RedisCache.healthCheck: PING; a rejection is caught and reported as 'down'.
RedisHealthCheck(up) == IF up THEN "up" ELSE "down"

\* CacheService.healthCheck: overall.status
SvcHealthCheck(c, up) ==
  IF RedisHealthCheck(up) = "up" THEN "healthy"
  ELSE IF MemorySize(c) > 0 THEN "degraded"
  ELSE "unhealthy"

DownKeys == {K_ab1, K_ax}
DownPatterns == {P_abStar}

SvcHealthCheckAct ==
  /\ lastOp' = [Op("healthCheck", <<>>, Null, SvcHealthCheck(cache, redisUp))
                  EXCEPT !.up = redisUp, !.l1Before = MemKeys(cache)]
  /\ UNCHANGED <<now, cache, store, patternSets, SvcOnly>>

\* The transport is lost or restored between two operations; this is no
\* operation of the program, and what completed last stays what it was.
RedisDisconnect ==
  /\ redisUp
  /\ redisUp' = FALSE
  /\ UNCHANGED <<now, cache, store, patternSets, lastOp, SvcRest>>

RedisReconnect ==
  /\ ~redisUp
  /\ redisUp' = TRUE
  /\ UNCHANGED <<now, cache, store, patternSets, lastOp, SvcRest>>

InitDown == InitWith(MaxSizeDown)

NextDown ==
  \/ \E k \in DownKeys : SvcSetAct(k, "A", 1, DefaultOpts)
  \/ \E k \in DownKeys : SvcGetAct(k, DefaultOpts)
  \/ \E p \in DownPatterns : SvcInvalidatePatternAct(p)
  \/ SvcHealthCheckAct
  \/ MemCleanupAct
  \/ RedisDisconnect
  \/ RedisReconnect
  \/ Tick(MaxTicksDown)

SpecDown == InitDown /\ [][NextDown]_vars

----------------------------------------------------------------------------
(* SpecRedis: the operations of the RedisCache client, called directly *)

\* RedisCache.getMultiple: one pipelined GET per key; a payload past its
\* expiresAt is skipped, a transport failure is caught and gives an empty Map.
RECURSIVE RedisGetMultiple(_, _, _, _, _)
RedisGetMultiple(s, keys, i, t, up) ==
  IF i > Len(keys) THEN <<>>
  ELSE IF RedisGetMultipleHit(s, keys[i], t, up)
       THEN <<[key |-> keys[i], value |-> s[keys[i]].value]>>
            \o RedisGetMultiple(s, keys, i + 1, t, up)
       ELSE RedisGetMultiple(s, keys, i + 1, t, up)

\* RedisCache.setMultiple: [store, threw]; the catch logs and rethrows.
RedisSetMultipleOp(s, entries, t, up) ==
  IF up THEN [store |-> RedisSetMultiple(s, entries, 1, t), threw |-> FALSE]
  ELSE [store |-> s, threw |-> TRUE]

\* RedisCache.clear: KEYS keyPrefix + '*' and DEL of all of them, the pattern
\* sets included; the catch logs and rethrows.  [store, patternSets, threw]
RedisClear(s, ps, up) ==
  IF up THEN [store |-> <<>>, patternSets |-> <<>>, threw |-> FALSE]
  ELSE [store |-> s, patternSets |-> ps, threw |-> TRUE]

RedisKeys == {K_ab1, K_ax}

RedisSetAct(k, v, ttl) ==
  \E r \in {RedisSet(store, patternSets, k, v, ttl, now, redisUp)} :
     /\ store' = r.store
     /\ patternSets' = r.patternSets
     /\ lastOp' = Op("redisSet", k, v, IF r.threw THEN "throw" ELSE "ok")
     /\ UNCHANGED <<now, cache, SvcOnly>>

RedisGetAct(k) ==
  \E r \in {RedisGet(store, k, now, redisUp)} :
     /\ store' = r.store
     /\ lastOp' = Op("redisGet", k, Null, r.value)
     /\ UNCHANGED <<now, cache, patternSets, SvcOnly>>

RedisDeleteAct(k) ==
  \E r \in {RedisDelete(store, k, redisUp)} :
     /\ store' = r.store
     /\ lastOp' = Op("redisDelete", k, Null, IF r.deleted THEN "true" ELSE "false")
     /\ UNCHANGED <<now, cache, patternSets, SvcOnly>>

RedisHasAct(k) ==
  /\ lastOp' = Op("redisHas", k, Null,
                  IF RedisHas(store, k, redisUp) THEN "true" ELSE "false")
  /\ UNCHANGED <<now, cache, store, patternSets, SvcOnly>>

RedisGetMultipleAct(keys) ==
  /\ lastOp' = [Op("redisGetMultiple", keys, Null, "ok")
                  EXCEPT !.values = RedisGetMultiple(store, keys, 1, now, redisUp)]
  /\ UNCHANGED <<now, cache, store, patternSets, SvcOnly>>

RedisSetMultipleAct(entries) ==
  \E r \in {RedisSetMultipleOp(store, entries, now, redisUp)} :
     /\ store' = r.store
     /\ lastOp' = Op("redisSetMultiple", entries[1].key, entries[1].value,
                     IF r.threw THEN "throw" ELSE "ok")
     /\ UNCHANGED <<now, cache, patternSets, SvcOnly>>

RedisClearAct ==
  \E r \in {RedisClear(store, patternSets, redisUp)} :
     /\ store' = r.store
     /\ patternSets' = r.patternSets
     /\ lastOp' = Op("redisClear", <<>>, Null, IF r.threw THEN "throw" ELSE "ok")
     /\ UNCHANGED <<now, cache, SvcOnly>>

InitRedis == InitWith(MaxSizeSvc)

NextRedis ==
  \/ \E k \in RedisKeys, v \in Values, ttl \in SvcTTLs : RedisSetAct(k, v, ttl)
  \/ \E k \in RedisKeys : RedisGetAct(k)
  \/ \E k \in RedisKeys : RedisDeleteAct(k)
  \/ \E k \in RedisKeys : RedisHasAct(k)
  \/ \E ks \in SvcKeyLists : RedisGetMultipleAct(ks)
  \/ \E es \in SvcEntryLists : RedisSetMultipleAct(es)
  \/ \E p \in SvcPatterns : RedisInvalidatePatternAct(p)
  \/ RedisClearAct
  \/ RedisFlip
  \/ Tick(MaxTicksRedis)

SpecRedis == InitRedis /\ [][NextRedis]_vars

----------------------------------------------------------------------------
(* SpecDecode: RedisCache reads of payloads that are not JSON *)

MaxTicksDecode == 2

\* Another client of the Redis server overwrites the payload of a key with
\* text that JSON.parse rejects; the key keeps its time to live (SET KEEPTTL).
ForeignWrite(k) ==
  /\ k \in DOMAIN store
  /\ ~ParseThrows(store[k])
  /\ store' = MapPut(store, k, [raw |-> "{oops", px |-> store[k].px])
  /\ lastOp' = Op("foreignWrite", k, Null, Null)
  /\ UNCHANGED <<now, cache, patternSets, SvcOnly>>

InitDecode == InitWith(MaxSizeSvc)

NextDecode ==
  \/ \E k \in RedisKeys, v \in Values, ttl \in SvcTTLs : RedisSetAct(k, v, ttl)
  \/ \E k \in RedisKeys : RedisGetAct(k)
  \/ \E ks \in SvcKeyLists : RedisGetMultipleAct(ks)
  \/ \E k \in RedisKeys : ForeignWrite(k)
  \/ Tick(MaxTicksDecode)

SpecDecode == InitDecode /\ [][NextDecode]_vars

----------------------------------------------------------------------------
(* SpecIndex: RedisCache.set with different ttls under one prefix pattern *)

MaxTicksIndex == 2
IndexTTLs == {1, 62}           \* seconds; they differ by more than the grace period

InitIndex == InitWith(MaxSizeSvc)

NextIndex ==
  \/ \E k \in RedisKeys, ttl \in IndexTTLs : RedisSetAct(k, "A", ttl)
  \/ \E k \in RedisKeys : RedisGetAct(k)
  \/ \E k \in RedisKeys : RedisDeleteAct(k)
  \/ Tick(MaxTicksIndex)

SpecIndex == InitIndex /\ [][NextIndex]_vars

----------------------------------------------------------------------------
(* ResponsePrecomputeService: precomputeResponse and getPrecomputed *)

\* `precomputed:${endpoint}`
PrecomputedPrefix == <<"p", "r", "e", "c", "o", "m", "p", "u", "t", "e", "d", ":">>

PrecomputedKey(endpoint) == PrecomputedPrefix \o endpoint

E_featured == <<"p", "r", "o", "p", "e", "r", "t", "i", "e", "s", "/", "f", "e", "a", "t", "u", "r", "e", "d">>

\* JSON.stringify of what the fetcher of an endpoint resolves with, when
\* invoked for the first time and afterwards.
FetcherJSON(n) ==
  IF n = 1 THEN <<"{", "\"", "s", "u", "c", "c", "e", "s", "s", "\"", ":", "t", "r", "u", "e", ",", "\"", "n", "\"", ":", "1", "}">>
  ELSE <<"{", "\"", "s", "u", "c", "c", "e", "s", "s", "\"", ":", "t", "r", "u", "e", ",", "\"", "n", "\"", ":", "2", "}">>

\* Buffer.from(JSON.stringify(data)).toString('base64').slice(0, 16): the
\* encoding of the first 12 bytes of the text.
ETag(json) == SubSeq(json, 1, Min(Len(json), ETagBytes))

\* The PrecomputedResponse performPrecomputation builds, as the tuple
\* <<data, statusCode, generatedAt, etag, X-Generation-Time, X-Priority>>
\* (the constant headers are left out).
PrecomputedResponse(json, options, startTime, t) ==
  <<json, 200, t, ETag(json), t - startTime, options.priority>>

\* response.data
DataOf(response) == response[1]

\* What a caller of precomputeResponse is left with when the call rejects.
Thrown(by) == <<"throw", by>>

\* A ttl rule that ignores the priority.
PrecomputeTTLFlat(options) ==
  IF options.ttl # 0 THEN options.ttl ELSE OtherPriorityTTL

\* options.ttl || (options.priority === 'high' ? 86400 : 3600)
PrecomputeTTL(options) ==
  IF options.ttl # 0 THEN options.ttl
  ELSE IF options.priority = "high" THEN HighPriorityTTL ELSE OtherPriorityTTL

\* this.processingQueue.has(cacheKey)
ProcessingHas(q, key) == key \in DOMAIN q

\* A getPrecomputed that starts a computation when it finds nothing.
GetPrecomputedComputing(c, s, q, log, endpoint, t, up) ==
  LET r == SvcGetOp(c, s, PrecomputedKey(endpoint), DefaultOpts, t, up)
  IN [cache |-> r.cache, store |-> r.store, value |-> r.value,
      processingQueue |->
        IF r.value # Null \/ ProcessingHas(q, PrecomputedKey(endpoint)) THEN q
        ELSE MapPut(q, PrecomputedKey(endpoint),
                    [id |-> 0, status |-> "pending", value |-> Null]),
      fetchLog |-> IF r.value # Null THEN log
                   ELSE [log EXCEPT ![endpoint].count = @ + 1]]

\* getPrecomputed: cacheService.get(`precomputed:${endpoint}`) and nothing
\* else.  [cache, store, value, processingQueue, fetchLog]
GetPrecomputed(c, s, q, log, endpoint, t, up) ==
  LET r == SvcGetOp(c, s, PrecomputedKey(endpoint), DefaultOpts, t, up)
  IN [cache |-> r.cache, store |-> r.store, value |-> r.value,
      processingQueue |-> q, fetchLog |-> log]

----------------------------------------------------------------------------
(* SpecPre: concurrent precomputeResponse calls and getPrecomputed *)

PreEndpoints == {E_featured}
PreOptions == {[priority |-> "high", ttl |-> 0]}
TTLOptions == {[priority |-> "high", ttl |-> 0], [priority |-> "medium", ttl |-> 0],
               [priority |-> "low", ttl |-> 7200]}

\* The instants (s) at which the clock of SpecPre stops.
PreInstants == <<0, 300, 301, 3599, 3600, 7199, 7200, 86399, 86400>>

IdlePre == [pc |-> "idle", endpoint |-> <<>>, options |-> [priority |-> "none", ttl |-> 0],
            id |-> 0, owner |-> FALSE, status |-> "none", value |-> Null,
            startTime |-> 0, threw |-> FALSE]

\* History of an endpoint: how often its fetcher has been invoked, what each
\* computation handed to its callers, the values precomputeResponse has
\* written under its key, and of the last such write: when, for a call with
\* which options, with which ttl and value, and whether L2 took it.
NoPreLog == [count |-> 0, outcomes |-> <<>>, storedAt |-> -1, ttl |-> 0,
             options |-> [priority |-> "none", ttl |-> 0],
             value |-> Null, full |-> FALSE, written |-> {}]

Outcome(log, endpoint, id, res) ==
  [log EXCEPT ![endpoint].outcomes[id] = @ \cup {res}]

\* A promise settles: everyone awaiting it is handed its state.
Settle(cs, endpoint, id, status, value) ==
  [j \in DOMAIN cs |->
     IF cs[j].pc \in {"computing", "joined"} /\ cs[j].endpoint = endpoint /\ cs[j].id = id
     THEN [cs[j] EXCEPT !.status = status, !.value = value,
                        !.pc = IF cs[j].owner THEN "computed" ELSE "joined"]
     ELSE cs[j]]

SettleQueue(q, key, id, status, value) ==
  IF key \in DOMAIN q /\ q[key].id = id
  THEN MapPut(q, key, [id |-> id, status |-> status, value |-> value])
  ELSE q

PreRest == <<processingKeys, calls, bgTasks, maxSize, dependencies, depCall, warm, setCalls>>

\* precomputeResponse up to its first await: either the promise found in
\* processingQueue is awaited, or performPrecomputation is called (which
\* invokes the fetcher before it suspends) and its promise is put into the Map.
\* [preCalls, processingQueue, fetchLog]
PreStartOp(cs, q, log, i, endpoint, options, t) ==
  LET key == PrecomputedKey(endpoint)
  IN IF ProcessingHas(q, key)
     THEN [preCalls |-> [cs EXCEPT ![i] =
             [IdlePre EXCEPT !.pc = "joined", !.endpoint = endpoint,
                             !.options = options, !.id = q[key].id,
                             !.status = q[key].status, !.value = q[key].value]],
           processingQueue |-> q, fetchLog |-> log]
     ELSE [preCalls |-> [cs EXCEPT ![i] =
             [IdlePre EXCEPT !.pc = "computing", !.endpoint = endpoint,
                             !.options = options, !.id = log[endpoint].count + 1,
                             !.owner = TRUE, !.status = "pending", !.startTime = t]],
           processingQueue |-> MapPut(q, key,
             [id |-> log[endpoint].count + 1, status |-> "pending", value |-> Null]),
           fetchLog |-> [log EXCEPT ![endpoint].count = @ + 1,
                                    ![endpoint].outcomes = Append(@, {})]]

PreStart(i, endpoint, options) ==
  /\ preCalls[i].pc = "idle"
  /\ \A j \in 1..(i - 1) : preCalls[j].pc # "idle"
  /\ \/ ProcessingHas(processingQueue, PrecomputedKey(endpoint))
     \/ fetchLog[endpoint].count < MaxPreFetches
  /\ \E r \in {PreStartOp(preCalls, processingQueue, fetchLog, i, endpoint, options, now)} :
       /\ preCalls' = r.preCalls
       /\ processingQueue' = r.processingQueue
       /\ fetchLog' = r.fetchLog
  /\ lastOp' = Step
  /\ UNCHANGED <<now, cache, store, patternSets, redisUp, PreRest>>

\* The fetcher resolves and performPrecomputation returns the response.
PreFetchOk(i) ==
  /\ preCalls[i].pc = "computing"
  /\ LET c == preCalls[i]
         v == PrecomputedResponse(FetcherJSON(c.id), c.options, c.startTime, now)
     IN /\ preCalls' = Settle(preCalls, c.endpoint, c.id, "resolved", v)
        /\ processingQueue' = SettleQueue(processingQueue, PrecomputedKey(c.endpoint),
                                          c.id, "resolved", v)
  /\ lastOp' = Step
  /\ UNCHANGED <<now, cache, store, patternSets, redisUp, fetchLog, PreRest>>

\* The fetcher rejects and performPrecomputation rethrows.
PreFetchFail(i) ==
  /\ preCalls[i].pc = "computing"
  /\ LET c == preCalls[i]
     IN /\ preCalls' = Settle(preCalls, c.endpoint, c.id, "rejected", Null)
        /\ processingQueue' = SettleQueue(processingQueue, PrecomputedKey(c.endpoint),
                                          c.id, "rejected", Null)
  /\ lastOp' = Step
  /\ UNCHANGED <<now, cache, store, patternSets, redisUp, fetchLog, PreRest>>

\* The owner resumes with the result and calls cacheService.set.
PreStore(i) ==
  /\ preCalls[i].pc = "computed"
  /\ preCalls[i].status = "resolved"
  /\ LET c == preCalls[i]
         ttl == PrecomputeTTL(c.options)
     IN \E r \in {SvcSetOp(cache, store, patternSets, PrecomputedKey(c.endpoint), c.value,
                           ttl, DefaultOpts, now, redisUp)} :
          /\ cache' = r.cache
          /\ store' = r.store
          /\ patternSets' = r.patternSets
          /\ preCalls' = [preCalls EXCEPT ![i].pc = "stored", ![i].threw = r.threw]
          /\ fetchLog' = [fetchLog EXCEPT ![c.endpoint] =
               [@ EXCEPT !.storedAt = now, !.ttl = ttl, !.options = c.options,
                         !.value = c.value,
                         !.full = ~r.threw, !.written = @ \cup {c.value}]]
  /\ lastOp' = Step
  /\ UNCHANGED <<now, redisUp, processingQueue, PreRest>>

\* The owner leaves through finally: the set has settled (return result, or
\* its error), or the computation was rejected (its error).
\* [preCalls, processingQueue, fetchLog, result, threw]
AtFinally(c) == c.pc = "stored" \/ (c.pc = "computed" /\ c.status = "rejected")

PreFinishOp(cs, q, log, i) ==
  LET c == cs[i]
      res == IF c.status = "rejected" THEN Thrown("fetcher")
             ELSE IF c.threw THEN Thrown("cacheService.set") ELSE c.value
  IN [preCalls |-> [cs EXCEPT ![i] = IdlePre],
      processingQueue |-> MapDrop(q, {PrecomputedKey(c.endpoint)}),
      fetchLog |-> Outcome(log, c.endpoint, c.id, res),
      result |-> res, threw |-> (c.status = "rejected" \/ c.threw)]

PreFinish(i) ==
  /\ AtFinally(preCalls[i])
  /\ \E r \in {PreFinishOp(preCalls, processingQueue, fetchLog, i)} :
       /\ preCalls' = r.preCalls
       /\ processingQueue' = r.processingQueue
       /\ fetchLog' = r.fetchLog
       /\ lastOp' = [Op("precomputeReturn", preCalls[i].endpoint, Null, r.result)
                       EXCEPT !.count = preCalls[i].id,
                              !.failed = (preCalls[i].status = "rejected"),
                              !.path = "owner"]
  /\ UNCHANGED <<now, cache, store, patternSets, redisUp, PreRest>>

\* A caller that awaited the promise of the Map resumes with its outcome.
PreJoinReturn(i) ==
  /\ preCalls[i].pc = "joined"
  /\ preCalls[i].status # "pending"
  /\ LET c == preCalls[i]
         res == IF c.status = "rejected" THEN Thrown("fetcher") ELSE c.value
     IN /\ fetchLog' = Outcome(fetchLog, c.endpoint, c.id, res)
        /\ lastOp' = [Op("precomputeReturn", c.endpoint, Null, res)
                        EXCEPT !.count = c.id, !.failed = (c.status = "rejected"),
                               !.path = "joined"]
  /\ preCalls' = [preCalls EXCEPT ![i] = IdlePre]
  /\ UNCHANGED <<now, cache, store, patternSets, redisUp, processingQueue, PreRest>>

GetPrecomputedAct(endpoint) ==
  \E r \in {GetPrecomputed(cache, store, processingQueue, fetchLog, endpoint, now,
                            redisUp)} :
     /\ cache' = r.cache
     /\ store' = r.store
     /\ processingQueue' = r.processingQueue
     /\ fetchLog' = r.fetchLog
     /\ lastOp' = [Op("getPrecomputed", endpoint, Null, r.value)
                     EXCEPT !.count = r.fetchLog[endpoint].count - fetchLog[endpoint].count,
                            !.launched = (r.processingQueue # processingQueue),
                            !.up = redisUp,
                            !.cold = /\ IndexOf(cache, PrecomputedKey(endpoint)) = 0
                                     /\ PrecomputedKey(endpoint) \notin DOMAIN store,
                            !.marker = ProcessingHas(processingQueue, PrecomputedKey(endpoint))]
     /\ UNCHANGED <<now, patternSets, redisUp, preCalls, PreRest>>

\* The clock moves on to the next instant of PreInstants.
PreTick ==
  /\ \E n \in 1..Min(MaxPreTicks, Len(PreInstants) - 1) :
       /\ now = PreInstants[n] * 1000
       /\ now' = PreInstants[n + 1] * 1000
  /\ store' = Unexpired(store, now')
  /\ patternSets' = Unexpired(patternSets, now')
  /\ lastOp' = Op("tick", <<>>, Null, Null)
  /\ UNCHANGED <<cache, redisUp, processingQueue, preCalls, fetchLog, PreRest>>

PreDisconnect ==
  /\ redisUp
  /\ redisUp' = FALSE
  /\ UNCHANGED <<now, cache, store, patternSets, lastOp, processingQueue, preCalls,
                 fetchLog, PreRest>>

PreReconnect ==
  /\ ~redisUp
  /\ redisUp' = TRUE
  /\ UNCHANGED <<now, cache, store, patternSets, lastOp, processingQueue, preCalls,
                 fetchLog, PreRest>>

InitPre ==
  /\ now = 0
  /\ cache = <<>>
  /\ store = <<>>
  /\ patternSets = <<>>
  /\ redisUp = TRUE
  /\ processingKeys = {}
  /\ calls = <<>>
  /\ bgTasks = <<>>
  /\ fetchLog = [e \in PreEndpoints |-> NoPreLog]
  /\ lastOp = NoOp
  /\ maxSize = MaxSizePre
  /\ dependencies = <<>>
  /\ depCall = <<>>
  /\ processingQueue = <<>>
  /\ preCalls = [i \in 1..NumPreCalls |-> IdlePre]
  /\ warm = <<>>
  /\ setCalls = <<>>

NextPre ==
  \/ \E i \in 1..NumPreCalls, e \in PreEndpoints, o \in PreOptions : PreStart(i, e, o)
  \/ \E i \in 1..NumPreCalls : PreFetchOk(i)
  \/ \E i \in 1..NumPreCalls : PreFetchFail(i)
  \/ \E i \in 1..NumPreCalls : PreStore(i)
  \/ \E i \in 1..NumPreCalls : PreFinish(i)
  \/ \E i \in 1..NumPreCalls : PreJoinReturn(i)
  \/ \E e \in PreEndpoints : GetPrecomputedAct(e)
  \/ PreDisconnect
  \/ PreReconnect

SpecPre == InitPre /\ [][NextPre]_vars

----------------------------------------------------------------------------
(* SpecPreTTL: one precomputeResponse at a time, getPrecomputed, and a clock *)
(* that runs past the 24 h of the longest ttl                                *)

InitPreTTL == InitPre

NextPreTTL ==
  \/ \E e \in PreEndpoints, o \in TTLOptions :
       fetchLog[e].count < MaxTTLFetches /\ PreStart(1, e, o)
  \/ PreFetchOk(1)
  \/ PreFetchFail(1)
  \/ PreStore(1)
  \/ PreFinish(1)
  \/ \E e \in PreEndpoints : GetPrecomputedAct(e)
  \/ preCalls[1].pc = "idle" /\ PreTick
  \/ PreDisconnect
  \/ PreReconnect

SpecPreTTL == InitPreTTL /\ [][NextPreTTL]_vars

----------------------------------------------------------------------------
(* SpecWarm: warmCache, one run at a time, every fetch free to fail *)

\* `properties?${new URLSearchParams(filters).toString()}` for the first and
\* the third of popularFilters (of the six, two are followed).
E_listRent == <<"p", "r", "o", "p", "e", "r", "t", "i", "e", "s", "?", "r", "o", "b", "=", "r", "e", "n", "t", "&", "l", "i", "m", "i", "t", "=", "2", "5", "&", "p", "a", "g", "e", "=", "1">>
E_listSale == <<"p", "r", "o", "p", "e", "r", "t", "i", "e", "s", "?", "r", "o", "b", "=", "s", "a", "l", "e", "&", "l", "i", "m", "i", "t", "=", "2", "5", "&", "p", "a", "g", "e", "=", "1">>

ListingEndpoints == <<E_listRent, E_listSale>>
WarmEndpoints == {E_featured, E_listRent, E_listSale}

FeaturedOptions == [priority |-> "high", ttl |-> 86400]
ListingOptions == [priority |-> "medium", ttl |-> 3600]

\* Array.isArray of a value, told from its JSON text.
IsArray(json) == Len(json) > 0 /\ json[1] = "["

WarmSlots == 1..(1 + Len(ListingEndpoints))

\* The proprefs of the properties the featured fetcher resolves with (the
\* data array of its ApiResponse), and the endpoint of a property's detail
\* response: `properties/${propref}`.
FeaturedProprefs == <<<<"1">>, <<"2">>>>

DetailEndpoint(propref) == <<"p", "r", "o", "p", "e", "r", "t", "i", "e", "s", "/">> \o propref

IdleWarm == [pc |-> "idle", base |-> <<>>, storedBefore |-> {}]

\* precomputePropertyListings: popularFilters.map(...) starts one
\* precomputeResponse per filter, in order, before anything is awaited.
RECURSIVE StartListings(_, _, _)
StartListings(r, n, t) ==
  IF n > Len(ListingEndpoints) THEN r
  ELSE StartListings(PreStartOp(r.preCalls, r.processingQueue, r.fetchLog, n + 1,
                                ListingEndpoints[n], ListingOptions, t),
                     n + 1, t)

\* History: the fetcher of the endpoint rejected during the run under way.
FailedInRun(e) ==
  \E id \in (warm.base[e] + 1)..fetchLog[e].count :
     Thrown("fetcher") \in fetchLog[e].outcomes[id]

WarmRest == <<processingKeys, calls, bgTasks, maxSize, dependencies, depCall, setCalls>>

WarmReturned == Op("warmCacheReturn", <<>>, Null, "ok")

\* warmCache up to its first await: precomputeFeaturedProperties calls
\* precomputeResponse('properties/featured', ..., {priority: 'high', ttl: 86400}).
WarmCacheStart ==
  /\ warm.pc \in {"idle", "done"}
  /\ \A e \in WarmEndpoints : fetchLog[e].count < MaxPreFetches
  /\ \E r \in {PreStartOp(preCalls, processingQueue, fetchLog, 1, E_featured,
                           FeaturedOptions, now)} :
       /\ preCalls' = r.preCalls
       /\ processingQueue' = r.processingQueue
       /\ fetchLog' = r.fetchLog
  /\ warm' = [warm EXCEPT
       !.pc = "featured",
       !.base = [e \in WarmEndpoints |-> fetchLog[e].count],
       !.storedBefore = {e \in WarmEndpoints :
                          Readable(cache, store, PrecomputedKey(e), now, redisUp) # Null}]
  /\ lastOp' = Step
  /\ UNCHANGED <<now, cache, store, patternSets, redisUp, WarmRest>>

\* precomputeResponse of the featured endpoint leaves through finally.  When
\* it throws, the catch of warmCache logs and warmCache returns; otherwise
\* precomputePropertyListings starts its calls.
WarmFeaturedReturned ==
  /\ warm.pc = "featured"
  /\ AtFinally(preCalls[1])
  /\ \E f \in {PreFinishOp(preCalls, processingQueue, fetchLog, 1)} :
       IF f.threw
       THEN /\ preCalls' = f.preCalls
            /\ processingQueue' = f.processingQueue
            /\ fetchLog' = f.fetchLog
            /\ warm' = [warm EXCEPT !.pc = "done"]
            /\ lastOp' = WarmReturned
       ELSE \E r \in {StartListings(f, 1, now)} :
            /\ preCalls' = r.preCalls
            /\ processingQueue' = r.processingQueue
            /\ fetchLog' = r.fetchLog
            /\ warm' = [warm EXCEPT !.pc = "listings"]
            /\ lastOp' = Step
  /\ UNCHANGED <<now, cache, store, patternSets, redisUp, WarmRest>>

\* Promise.allSettled of the listing calls has settled; warmCache reads the
\* featured response back and goes on to precomputePropertyDetails and
\* preloadPopularImages only if its data is an array.  The data is what the
\* fetcher returned, the ApiResponse object { success, data, meta }, so
\* warmCache returns here.
WarmListingsSettled ==
  /\ warm.pc = "listings"
  /\ \A i \in WarmSlots : preCalls[i].pc = "idle"
  /\ \E g \in {GetPrecomputed(cache, store, processingQueue, fetchLog, E_featured, now,
                               redisUp)} :
       /\ cache' = g.cache
       /\ store' = g.store
       /\ IF g.value # Null /\ IsArray(DataOf(g.value))
          THEN warm' = [warm EXCEPT !.pc = "details"] /\ lastOp' = Step
          ELSE warm' = [warm EXCEPT !.pc = "done"] /\ lastOp' = WarmReturned
  /\ UNCHANGED <<now, patternSets, redisUp, processingQueue, preCalls, fetchLog, WarmRest>>

InitWarm ==
  /\ now = 0
  /\ cache = <<>>
  /\ store = <<>>
  /\ patternSets = <<>>
  /\ redisUp = TRUE
  /\ processingKeys = {}
  /\ calls = <<>>
  /\ bgTasks = <<>>
  /\ fetchLog = [e \in WarmEndpoints |-> NoPreLog]
  /\ lastOp = NoOp
  /\ maxSize = MaxSizeWarm
  /\ dependencies = <<>>
  /\ depCall = <<>>
  /\ processingQueue = <<>>
  /\ preCalls = [i \in WarmSlots |-> IdlePre]
  /\ warm = IdleWarm
  /\ setCalls = <<>>

NextWarm ==
  \/ WarmCacheStart
  \/ \E i \in WarmSlots : PreFetchOk(i)
  \/ \E i \in WarmSlots : PreFetchFail(i)
  \/ \E i \in WarmSlots : PreStore(i)
  \/ WarmFeaturedReturned
  \/ \E i \in WarmSlots \ {1} : PreFinish(i)
  \/ WarmListingsSettled

SpecWarm == InitWarm /\ [][NextWarm]_vars

----------------------------------------------------------------------------
(* SpecListings: precomputePropertyListings with all of popularFilters *)

MaxConcurrent == 5             \* ResponsePrecomputeService.maxConcurrent
MaxSizeListings == 6           \* MemoryCache maxSize in SpecListings
MaxListingRuns == 1            \* calls of precomputePropertyListings

\* The endpoints of the other four popularFilters.
E_listRent2 == <<"p", "r", "o", "p", "e", "r", "t", "i", "e", "s", "?", "r", "o", "b", "=", "r", "e", "n", "t", "&", "l", "i", "m", "i", "t", "=", "2", "5", "&", "p", "a", "g", "e", "=", "2">>
E_listBeds1 == <<"p", "r", "o", "p", "e", "r", "t", "i", "e", "s", "?", "r", "o", "b", "=", "r", "e", "n", "t", "&", "b", "e", "d", "s", "=", "1", "&", "l", "i", "m", "i", "t", "=", "2", "5", "&", "p", "a", "g", "e", "=", "1">>
E_listBeds2 == <<"p", "r", "o", "p", "e", "r", "t", "i", "e", "s", "?", "r", "o", "b", "=", "r", "e", "n", "t", "&", "b", "e", "d", "s", "=", "2", "&", "l", "i", "m", "i", "t", "=", "2", "5", "&", "p", "a", "g", "e", "=", "1">>
E_listBeds3 == <<"p", "r", "o", "p", "e", "r", "t", "i", "e", "s", "?", "r", "o", "b", "=", "r", "e", "n", "t", "&", "b", "e", "d", "s", "=", "3", "&", "l", "i", "m", "i", "t", "=", "2", "5", "&", "p", "a", "g", "e", "=", "1">>

PopularEndpoints == <<E_listRent, E_listRent2, E_listSale, E_listBeds1, E_listBeds2,
                      E_listBeds3>>

\* popularFilters.map(...): one precomputeResponse per endpoint of the list,
\* in order, each run up to its first await, into the slots from `first` on.
RECURSIVE StartEach(_, _, _, _, _)
StartEach(endpoints, r, n, first, t) ==
  IF n > Len(endpoints) THEN r
  ELSE StartEach(endpoints,
                 PreStartOp(r.preCalls, r.processingQueue, r.fetchLog, first + n - 1,
                            endpoints[n], ListingOptions, t),
                 n + 1, first, t)

\* The background tasks of the process that are under way: the background
\* revalidations of getWithSWR and the computations held in processingQueue.
BackgroundTasks == Len(bgTasks) + Cardinality(DOMAIN processingQueue)

ListingSlots == 1..Len(PopularEndpoints)

\* precomputePropertyListings up to its await of Promise.allSettled.
ListingsStart ==
  /\ warm.pc \in {"idle", "done"}
  /\ \A n \in ListingSlots : fetchLog[PopularEndpoints[n]].count < MaxListingRuns
  /\ \E r \in {StartEach(PopularEndpoints,
                          [preCalls |-> preCalls, processingQueue |-> processingQueue,
                           fetchLog |-> fetchLog], 1, 1, now)} :
       /\ preCalls' = r.preCalls
       /\ processingQueue' = r.processingQueue
       /\ fetchLog' = r.fetchLog
  /\ warm' = [warm EXCEPT !.pc = "listings"]
  /\ lastOp' = Step
  /\ UNCHANGED <<now, cache, store, patternSets, redisUp, WarmRest>>

\* Promise.allSettled has settled: precomputePropertyListings returns.
ListingsSettled ==
  /\ warm.pc = "listings"
  /\ \A i \in ListingSlots : preCalls[i].pc = "idle"
  /\ warm' = [warm EXCEPT !.pc = "done"]
  /\ lastOp' = Op("precomputePropertyListingsReturn", <<>>, Null, "ok")
  /\ UNCHANGED <<now, cache, store, patternSets, redisUp, processingQueue, preCalls,
                 fetchLog, WarmRest>>

InitListings ==
  /\ now = 0
  /\ cache = <<>>
  /\ store = <<>>
  /\ patternSets = <<>>
  /\ redisUp = TRUE
  /\ processingKeys = {}
  /\ calls = <<>>
  /\ bgTasks = <<>>
  /\ fetchLog = [e \in {PopularEndpoints[n] : n \in ListingSlots} |-> NoPreLog]
  /\ lastOp = NoOp
  /\ maxSize = MaxSizeListings
  /\ dependencies = <<>>
  /\ depCall = <<>>
  /\ processingQueue = <<>>
  /\ preCalls = [i \in ListingSlots |-> IdlePre]
  /\ warm = IdleWarm
  /\ setCalls = <<>>

\* The schedule followed: the requests are answered in the order in which they
\* were sent, and a call has returned before the next answer arrives.
InTurn(i) == \A j \in 1..(i - 1) : preCalls[j].pc = "idle"

NextListings ==
  \/ ListingsStart
  \/ \E i \in ListingSlots : InTurn(i) /\ PreFetchOk(i)
  \/ \E i \in ListingSlots : InTurn(i) /\ PreFetchFail(i)
  \/ \E i \in ListingSlots : InTurn(i) /\ PreStore(i)
  \/ \E i \in ListingSlots : InTurn(i) /\ PreFinish(i)
  \/ ListingsSettled

SpecListings == InitListings /\ [][NextListings]_vars

----------------------------------------------------------------------------
(* SpecKeys: cache keys derived from filter objects *)

\* An object is the sequence of its properties in insertion order.  A query
\* entry is [name, value], both strings; a filter property is
\* [name, kind, text], text being the value as JSON.stringify writes a number
\* or, between quotes, a string.

HasProperty(obj, name) == \E i \in 1..Len(obj) : obj[i].name = name

PropertyOf(obj, name) == obj[CHOOSE i \in 1..Len(obj) : obj[i].name = name]

\* Object.fromEntries: a name met again keeps its place and takes the new value.
RECURSIVE ObjectFromEntries(_, _)
ObjectFromEntries(entries, n) ==
  IF n = 0 THEN <<>>
  ELSE LET obj == ObjectFromEntries(entries, n - 1)
           e == entries[n]
       IN IF HasProperty(obj, e.name)
          THEN [i \in 1..Len(obj) |-> IF obj[i].name = e.name THEN e ELSE obj[i]]
          ELSE Append(obj, e)

\* PropertyFiltersSchema, the fields followed: rob (an enum), beds (a coerced
\* number), and limit and page with their defaults.
SchemaShape == <<"rob", "beds", "limit", "page">>

SchemaKind(name) == IF name = "rob" THEN "string" ELSE "number"

SchemaDefault(name) ==
  CASE name = "limit" -> "25"
    [] name = "page" -> "1"
    [] OTHER -> Null

\* PropertyFiltersSchema.parse: the result is built field by field in the
\* order of the schema; an optional field that is absent is left out, a field
\* with a default takes it.
RECURSIVE SchemaParse(_, _)
SchemaParse(obj, n) ==
  IF n = 0 THEN <<>>
  ELSE LET name == SchemaShape[n]
           sofar == SchemaParse(obj, n - 1)
       IN IF HasProperty(obj, name)
          THEN Append(sofar, [name |-> name, kind |-> SchemaKind(name),
                              text |-> PropertyOf(obj, name).value])
          ELSE IF SchemaDefault(name) # Null
          THEN Append(sofar, [name |-> name, kind |-> SchemaKind(name),
                              text |-> SchemaDefault(name)])
          ELSE sofar

JSONMember(m) ==
  "\"" \o m.name \o "\":" \o (IF m.kind = "string" THEN "\"" \o m.text \o "\"" ELSE m.text)

RECURSIVE JSONMembers(_, _)
JSONMembers(obj, n) ==
  IF n = 0 THEN ""
  ELSE IF n = 1 THEN JSONMember(obj[1])
  ELSE JSONMembers(obj, n - 1) \o "," \o JSONMember(obj[n])

\* JSON.stringify(obj): the properties in insertion order.
JSONStringify(obj) == "{" \o JSONMembers(obj, Len(obj)) \o "}"

\* GET /api/properties: `properties:${JSON.stringify(filters)}`
RouteCacheKey(entries) ==
  "properties:" \o
    JSONStringify(SchemaParse(ObjectFromEntries(entries, Len(entries)), Len(SchemaShape)))

ObjectKeys(obj) == [i \in 1..Len(obj) |-> obj[i].name]

\* The order of Array.prototype.sort without a comparator: strings compared
\* code unit by code unit (the names are made of lower-case letters).
Alphabet == "abcdefghijklmnopqrstuvwxyz"

CodeUnit(c) == CHOOSE i \in 1..Len(Alphabet) : SubSeq(Alphabet, i, i) = c

RECURSIVE StringBefore(_, _, _)
StringBefore(a, b, i) ==
  IF i > Len(b) THEN FALSE
  ELSE IF i > Len(a) THEN TRUE
  ELSE IF SubSeq(a, i, i) = SubSeq(b, i, i) THEN StringBefore(a, b, i + 1)
  ELSE CodeUnit(SubSeq(a, i, i)) < CodeUnit(SubSeq(b, i, i))

RECURSIVE InsertSorted(_, _)
InsertSorted(sorted, x) ==
  IF sorted = <<>> THEN <<x>>
  ELSE IF StringBefore(x, sorted[1], 1) THEN <<x>> \o sorted
  ELSE <<sorted[1]>> \o InsertSorted(SubSeq(sorted, 2, Len(sorted)), x)

\* The property list taken as it stands, unsorted.
KeysAsInserted(keys) == keys

\* Object.keys(obj).sort()
SortKeys(keys) ==
  LET F[n \in 0..Len(keys)] == IF n = 0 THEN <<>> ELSE InsertSorted(F[n - 1], keys[n])
  IN F[Len(keys)]

\* JSON.stringify(obj, list): the properties named by the list, in its order.
SelectProperties(obj, list) ==
  LET F[n \in 0..Len(list)] ==
        IF n = 0 THEN <<>>
        ELSE IF HasProperty(obj, list[n]) THEN Append(F[n - 1], PropertyOf(obj, list[n]))
        ELSE F[n - 1]
  IN F[Len(list)]

\* createHash('md5').update(text).digest('hex').substring(0, 12), for the
\* texts the objects followed here serialize to.
MD5Hex12(text) ==
  CASE text = "{\"beds\":1,\"rob\":\"rent\"}" -> "5295d8cdcdc4"
    [] text = "{\"beds\":1,\"rob\":\"sale\"}" -> "60d9fdaac819"
    [] text = "{\"beds\":1}" -> "8d237dce6d9e"
    [] text = "{\"beds\":2,\"rob\":\"rent\"}" -> "6ac38cba1de4"
    [] text = "{\"beds\":2,\"rob\":\"sale\"}" -> "02df2c45ac37"
    [] text = "{\"beds\":2}" -> "08ccde338ee7"
    [] text = "{\"rob\":\"rent\",\"beds\":1}" -> "f6f5d0b90efb"
    [] text = "{\"rob\":\"rent\",\"beds\":2}" -> "22208745f452"
    [] text = "{\"rob\":\"rent\"}" -> "2a204c93e751"
    [] text = "{\"rob\":\"sale\",\"beds\":1}" -> "aaa809c586ad"
    [] text = "{\"rob\":\"sale\",\"beds\":2}" -> "dc3eb6896a6a"
    [] text = "{\"rob\":\"sale\"}" -> "aac9b52e8343"
    [] text = "{}" -> "99914b932bd3"
    [] OTHER -> "?"

\* hash(obj) of the cache key strategy
Hash(obj) == MD5Hex12(JSONStringify(SelectProperties(obj, SortKeys(ObjectKeys(obj)))))

\* CACHE_KEYS.properties: `properties:${hash(filters)}`
HashedCacheKey(filters) == "properties:" \o Hash(filters)

\* The query entries followed: rob and beds, each present or not, in either
\* order, with two values each.
KeyEntries ==
  {[name |-> "rob", value |-> v] : v \in {"rent", "sale"}}
    \cup {[name |-> "beds", value |-> v] : v \in {"1", "2"}}

KeyInputs ==
  {<<>>} \cup {<<e>> : e \in KeyEntries}
         \cup {g \in KeyEntries \X KeyEntries : g[1].name # g[2].name}

\* The filter object a caller builds from the same entries, values typed as
\* the schema types them.
FilterObject(entries) ==
  [i \in 1..Len(entries) |-> [name |-> entries[i].name, kind |-> SchemaKind(entries[i].name),
                              text |-> entries[i].value]]

PairsOf(entries) == {entries[i] : i \in 1..Len(entries)}

NamesOf(entries) == {entries[i].name : i \in 1..Len(entries)}

KeysRest == <<now, cache, store, patternSets, redisUp, processingKeys, calls, bgTasks,
              fetchLog, maxSize, dependencies, depCall, processingQueue, preCalls, warm, setCalls>>

\* The route derives the key of two requests.
RouteKeyAct(a, b) ==
  /\ lastOp' = [Op("routeKey", RouteCacheKey(a), Null, RouteCacheKey(b))
                  EXCEPT !.values = <<a, b>>]
  /\ UNCHANGED KeysRest

\* CACHE_KEYS.properties derives the key of two filter objects.
HashedKeyAct(a, b) ==
  /\ lastOp' = [Op("hashedKey", HashedCacheKey(FilterObject(a)), Null,
                   HashedCacheKey(FilterObject(b)))
                  EXCEPT !.values = <<a, b>>]
  /\ UNCHANGED KeysRest

InitKeys == InitWith(MaxSizeSvc)

NextKeys ==
  \/ \E a, b \in KeyInputs : RouteKeyAct(a, b)
  \/ \E a, b \in KeyInputs : HashedKeyAct(a, b)

SpecKeys == InitKeys /\ [][NextKeys]_vars

----------------------------------------------------------------------------
(* SpecRace: CacheService.invalidatePattern while getWithSWR calls, background *)
(* revalidations and plain sets of a matching key are under way             *)

MaxSizeRace == 1                 \* MemoryCache maxSize in SpecRace
MaxTicksRace == 2                \* clock steps taken in SpecRace

RaceOptions == {[freshTTL |-> 1, staleTTL |-> 31]}

\* RedisCache.invalidatePattern: await this.redis.keys(this.keyPrefix + pattern),
\* the data keys and the pattern sets the glob finds.
RedisKeysFound(s, ps, pattern) ==
  [data |-> {k \in DOMAIN s : GlobMatch(pattern, k)},
   sets |-> {p \in DOMAIN ps : GlobMatch(pattern, PatternSetKey(p))}]

\* A DEL that removes nothing.
RedisDelNothing(s, keys) == s

\* RedisCache.invalidatePattern: await this.redis.del(...keys)
RedisDelKeys(s, keys) == MapDrop(s, keys)

\* Writers of k that have started and not yet stored: fetchAndCache calls
\* awaiting their fetcher and background revalidations.
WritersInFlight(k) ==
  \/ \E i \in DOMAIN calls : calls[i].pc = "fetching" /\ calls[i].key = k
  \/ \E j \in DOMAIN bgTasks : bgTasks[j].key = k

\* One CacheService.invalidatePattern call.  Commands reach Redis in the order
\* they are sent and are taken to run when sent; what the call does next waits
\* for the reply.  found is the reply of KEYS; memoryCount what the L1 pass
\* removed; l1Before and l2Before whether the tiers held the key when the call
\* began; inFlight whether a writer of the key was under way then, invoked and
\* plain the fetcher invocations and plain sets of the key counted then.
IdleInv == [pc |-> "idle", pattern |-> <<>>, found |-> [data |-> {}, sets |-> {}],
            memoryCount |-> 0, l1Before |-> {}, l2Before |-> {}, inFlight |-> FALSE,
            background |-> FALSE, invoked |-> 0, plain |-> 0, raced |-> FALSE]

RaceRest == <<now, redisUp, processingKeys, calls, bgTasks, fetchLog, maxSize,
              dependencies, processingQueue, preCalls, warm, setCalls>>

\* Promise.all([Promise.resolve(memoryCache.invalidatePattern(pattern)),
\* redisCache.invalidatePattern(pattern)]): the L1 pass runs at once, then KEYS
\* is sent.
InvalidatePatternStart(p, k) ==
  /\ depCall.pc = "idle"
  /\ redisUp
  /\ \E m \in {MemInvalidatePattern(cache, p)} :
       /\ cache' = m.cache
       /\ depCall' = [IdleInv EXCEPT
            !.pc = "keys", !.pattern = p,
            !.found = RedisKeysFound(store, patternSets, p),
            !.memoryCount = m.count,
            !.l1Before = MemKeys(cache), !.l2Before = DOMAIN store,
            !.inFlight = WritersInFlight(k),
            !.background = \E j \in DOMAIN bgTasks : bgTasks[j].key = k,
            !.invoked = fetchLog[k].count, !.plain = fetchLog[k].plain]
  /\ lastOp' = Step
  /\ UNCHANGED <<store, patternSets, RaceRest>>

\* The reply of KEYS: nothing found returns 0, otherwise DEL is sent.
InvalidatePatternDel ==
  /\ depCall.pc = "keys"
  /\ depCall.found.data \cup depCall.found.sets # {}
  /\ store' = RedisDelKeys(store, depCall.found.data)
  /\ patternSets' = MapDrop(patternSets, depCall.found.sets)
  /\ depCall' = [depCall EXCEPT !.pc = "del"]
  /\ lastOp' = Step
  /\ UNCHANGED <<cache, RaceRest>>

\* The reply of DEL (removeFromPattern, return keys.length), or of a KEYS that
\* found nothing: invalidatePattern returns memoryCount + redisCount.
InvalidatePatternReturn(k) ==
  LET n == Cardinality(depCall.found.data) + Cardinality(depCall.found.sets)
  IN /\ \/ depCall.pc = "del"
        \/ depCall.pc = "keys" /\ n = 0
     /\ patternSets' = IF n = 0 THEN patternSets
                       ELSE MapDrop(patternSets, {depCall.pattern})
     /\ depCall' = [depCall EXCEPT
          !.pc = "done",
          !.raced = \/ depCall.inFlight
                    \/ fetchLog[k].count > depCall.invoked
                    \/ fetchLog[k].plain > depCall.plain]
     /\ lastOp' = [Op("invalidatePatternReturn", depCall.pattern, Null, Null)
                     EXCEPT !.count = depCall.memoryCount + n,
                            !.l1Before = depCall.l1Before,
                            !.l2Before = depCall.l2Before]
     /\ UNCHANGED <<cache, store, RaceRest>>

RaceTick ==
  /\ now < MaxTicksRace * 1000
  /\ now' = now + 1000
  /\ store' = Unexpired(store, now')
  /\ patternSets' = Unexpired(patternSets, now')
  /\ lastOp' = Step
  /\ UNCHANGED <<cache, redisUp, processingKeys, calls, bgTasks, fetchLog, SWRRest>>

InitRace ==
  /\ now = 0
  /\ cache = <<>>
  /\ store = <<>>
  /\ patternSets = <<>>
  /\ redisUp = TRUE
  /\ processingKeys = {}
  /\ calls = [i \in 1..NumCalls |-> IdleCall]
  /\ bgTasks = <<>>
  /\ fetchLog = [k \in SWRKeys |-> NoLog]
  /\ lastOp = NoOp
  /\ maxSize = MaxSizeRace
  /\ dependencies = <<>>
  /\ depCall = IdleInv
  /\ processingQueue = <<>>
  /\ preCalls = <<>>
  /\ warm = <<>>
  /\ setCalls = <<>>

NextRace ==
  \/ \E i \in 1..NumCalls, o \in RaceOptions : SWRStart(i, K_ab1, o)
  \/ \E i \in 1..NumCalls : SWRReturnFresh(i)
  \/ \E i \in 1..NumCalls : SWRReturnStale(i)
  \/ \E i \in 1..NumCalls : SWRFetch(i)
  \/ \E i \in 1..NumCalls : SWRFetchOk(i)
  \/ \E i \in 1..NumCalls : SWRFetchFail(i)
  \/ \E j \in 1..NumCalls : BgFetchOk(j)
  \/ \E j \in 1..NumCalls : BgFetchFail(j)
  \/ SWRPlainSet(K_ab1, "C", 1, DefaultOpts)
  \/ InvalidatePatternStart(P_abStar, K_ab1)
  \/ InvalidatePatternDel
  \/ InvalidatePatternReturn(K_ab1)
  \/ RaceTick

SpecRace == InitRace /\ [][NextRace]_vars

----------------------------------------------------------------------------

(* SpecGet: CacheService.get under every combination of skipMemory and      *)
(* skipRedis, the tiers filled by sets that write both or L2 alone          *)

MaxSizeGet == 1                  \* MemoryCache maxSize in SpecGet
MaxTicksGet == 2                 \* clock steps taken in SpecGet

GetOpts == {[skipMemory |-> m, skipRedis |-> r, ttl |-> 0] : m, r \in BOOLEAN}

InitGet == InitWith(MaxSizeGet)

NextGet ==
  \/ \E k \in SvcKeys, o \in SvcSetOpts : SvcSetAct(k, "A", 1, o)
  \/ \E k \in SvcKeys, o \in GetOpts : SvcGetAct(k, o)
  \/ RedisFlip
  \/ Tick(MaxTicksGet)

SpecGet == InitGet /\ [][NextGet]_vars

----------------------------------------------------------------------------

(* SpecInvalidate: invalidateProperty over the precomputed responses of       *)
(* several properties, the featured list and a listing                       *)

MaxSizeInvalidate == 5           \* MemoryCache maxSize in SpecInvalidate

Proprefs == {<<"1">>, <<"1", "2">>, <<"2">>}

InvalidateEndpoints == {DetailEndpoint(q) : q \in Proprefs} \cup {E_featured, E_listRent}

\* invalidateProperty: const patterns = [`precomputed:properties/${propref}`,
\* `precomputed:properties/featured`, `precomputed:properties?*`]
PropertyPatterns(propref) ==
  << PrecomputedKey(DetailEndpoint(propref)),
     PrecomputedKey(E_featured),
     PrecomputedPrefix \o <<"p", "r", "o", "p", "e", "r", "t", "i", "e", "s", "?", "*">> >>

\* One invalidateProperty call: the patterns, the one to invalidate next, the
\* running total, and the keys each tier held when the call began.
IdleInvalidate == [pc |-> "idle", propref |-> <<>>, patterns |-> <<>>, idx |-> 0,
                   total |-> 0, l1Before |-> {}, l2Before |-> {}]

\* precomputeResponse has stored the response of an endpoint:
\* await cacheService.set(cacheKey, result, ttl)
StorePrecomputed(endpoint) ==
  /\ depCall.pc = "idle"
  /\ \E w \in {SvcSetOp(cache, store, patternSets, PrecomputedKey(endpoint), "A",
                        PrecomputeTTL(ListingOptions), DefaultOpts, now, redisUp)} :
       /\ cache' = w.cache
       /\ store' = w.store
       /\ patternSets' = w.patternSets
  /\ lastOp' = Step
  /\ UNCHANGED <<depCall, RaceRest>>

InvalidatePropertyStart(propref) ==
  /\ depCall.pc = "idle"
  /\ depCall' = [IdleInvalidate EXCEPT
       !.pc = "invalidating", !.propref = propref,
       !.patterns = PropertyPatterns(propref), !.idx = 1,
       !.l1Before = {k \in MemKeys(cache) : HeldL1(cache, k, now)},
       !.l2Before = DOMAIN store]
  /\ lastOp' = Step
  /\ UNCHANGED <<cache, store, patternSets, RaceRest>>

\* total += await cacheService.invalidatePattern(pattern)
InvalidatePropertyNext ==
  /\ depCall.pc = "invalidating"
  /\ depCall.idx <= Len(depCall.patterns)
  /\ \E r \in {SvcInvalidatePatternOp(cache, store, patternSets,
                                      depCall.patterns[depCall.idx], redisUp)} :
       /\ cache' = r.cache
       /\ store' = r.store
       /\ patternSets' = r.patternSets
       /\ depCall' = [depCall EXCEPT !.idx = @ + 1, !.total = @ + r.count]
  /\ lastOp' = Step
  /\ UNCHANGED RaceRest

\* return total
InvalidatePropertyReturn ==
  /\ depCall.pc = "invalidating"
  /\ depCall.idx > Len(depCall.patterns)
  /\ depCall' = IdleInvalidate
  /\ lastOp' = [Op("invalidateProperty", depCall.propref, Null, Null)
                  EXCEPT !.count = depCall.total,
                         !.l1Before = depCall.l1Before,
                         !.l2Before = depCall.l2Before]
  /\ UNCHANGED <<cache, store, patternSets, RaceRest>>

InitInvalidate ==
  /\ now = 0
  /\ cache = <<>>
  /\ store = <<>>
  /\ patternSets = <<>>
  /\ redisUp = TRUE
  /\ processingKeys = {}
  /\ calls = <<>>
  /\ bgTasks = <<>>
  /\ fetchLog = <<>>
  /\ lastOp = NoOp
  /\ maxSize = MaxSizeInvalidate
  /\ dependencies = <<>>
  /\ depCall = IdleInvalidate
  /\ processingQueue = <<>>
  /\ preCalls = <<>>
  /\ warm = <<>>
  /\ setCalls = <<>>

NextInvalidate ==
  \/ \E e \in InvalidateEndpoints : StorePrecomputed(e)
  \/ \E q \in Proprefs : InvalidatePropertyStart(q)
  \/ InvalidatePropertyNext
  \/ InvalidatePropertyReturn

SpecInvalidate == InitInvalidate /\ [][NextInvalidate]_vars

----------------------------------------------------------------------------

(* SpecSets: CacheService.set calls that overlap in one process.  A call runs *)
(* without interruption up to its await: SETEX is handed to the Redis client  *)
(* and L1 is written.  Redis executes what the client sent, the reply lets    *)
(* the call register the key in its pattern sets and return.                  *)

MaxSizeSets == 2                 \* MemoryCache maxSize in SpecSets
NumSetCalls == 3                 \* CacheService.set calls that may be in progress at once

SetKeys == {K_ab1, K_ax}

\* A connection that executes the commands it was sent in any order.
ExecutableAny(cs) == {n \in 1..Len(cs) : cs[n].pc = "sent"}

\* The commands of one connection are executed in the order in which the
\* client sent them: the oldest SETEX not yet executed is the next.
Executable(cs) ==
  {n \in 1..Len(cs) : cs[n].pc = "sent" /\ \A m \in 1..(n - 1) : cs[m].pc # "sent"}

SetsRest == <<now, redisUp, processingKeys, calls, bgTasks, fetchLog, maxSize,
              dependencies, depCall, processingQueue, preCalls, warm>>

\* CacheService.set(k, v, ttl) up to await Promise.all(promises):
\* redisCache.set has built its entry and sent SETEX, memoryCache.set has run.
\* rivals are the values of the other calls for the key in progress meanwhile.
SetCall(k, v, ttl) ==
  /\ Len(setCalls) < NumSetCalls
  /\ redisUp
  /\ cache' = MemSet(cache, k, v, MemoryTTL(ttl), now, now + ttl * 1000)
  /\ setCalls' =
       Append([n \in 1..Len(setCalls) |->
                 IF setCalls[n].key = k
                 THEN [setCalls[n] EXCEPT !.rivals = @ \cup {v}] ELSE setCalls[n]],
              [key |-> k, value |-> v, ttl |-> ttl, at |-> now, pc |-> "sent",
               rivals |-> {setCalls[n].value : n \in {m \in 1..Len(setCalls) :
                                                        setCalls[m].key = k}}])
  /\ lastOp' = Step
  /\ UNCHANGED <<store, patternSets, SetsRest>>

\* Redis executes SETEX fullKey ttl JSON.stringify(cacheEntry).
RedisExecute(n) ==
  /\ n \in Executable(setCalls)
  /\ store' = MapPut(store, setCalls[n].key,
                     [value |-> setCalls[n].value,
                      expiresAt |-> setCalls[n].at + setCalls[n].ttl * 1000,
                      createdAt |-> setCalls[n].at,
                      px |-> now + setCalls[n].ttl * 1000])
  /\ setCalls' = [setCalls EXCEPT ![n].pc = "executed"]
  /\ lastOp' = Step
  /\ UNCHANGED <<cache, patternSets, SetsRest>>

\* The reply of SETEX: await this.addToPattern(key, ttl), then the call returns.
SetReturn(n) ==
  /\ n \in 1..Len(setCalls)
  /\ setCalls[n].pc = "executed"
  /\ patternSets' = AddToPattern(patternSets, setCalls[n].key, setCalls[n].ttl, now)
  /\ setCalls' = RemoveAt(setCalls, n)
  /\ lastOp' = [Op("svcSetReturn", setCalls[n].key, setCalls[n].value, "ok")
                  EXCEPT !.count = Cardinality(setCalls[n].rivals \ {setCalls[n].value})]
  /\ UNCHANGED <<cache, store, SetsRest>>

InitSets == InitWith(MaxSizeSets)

NextSets ==
  \/ \E k \in SetKeys, v \in Values : SetCall(k, v, 1)
  \/ \E n \in 1..NumSetCalls : RedisExecute(n)
  \/ \E n \in 1..NumSetCalls : SetReturn(n)

SpecSets == InitSets /\ [][NextSets]_vars

----------------------------------------------------------------------------

(* SpecPeriodic: the startup warmCache, startPeriodicWarming(3600000) once it *)
(* has returned, and the runs its interval starts; every fetch succeeds      *)

WarmingIntervalMs == 3600000     \* startPeriodicWarming(3600000)
MaxSizePeriodic == 3             \* MemoryCache maxSize in SpecPeriodic
MaxPeriodTicks == 4              \* clock steps taken in SpecPeriodic

\* The instants (s) at which the clock of SpecPeriodic stops; 0 is the instant
\* at which the startup timeout calls warmCache.
PeriodInstants == <<0, 1, 3599, 3600, 3601>>

\* since: when startPeriodicWarming was called (-1: not yet).
IdlePeriodic == [pc |-> "idle", base |-> <<>>, storedBefore |-> {}, since |-> -1]

\* The interval is due: as many intervals have elapsed since
\* startPeriodicWarming as warmCache runs were started (the startup run
\* included), and the callback has not yet run.
IntervalDue ==
  /\ warm.since >= 0
  /\ now = warm.since + fetchLog[E_featured].count * WarmingIntervalMs

\* setTimeout(async () => { await responsePrecomputer.warmCache(); ... }, 1000)
StartupWarming ==
  /\ warm.pc = "idle"
  /\ WarmCacheStart

\* ... responsePrecomputer.startPeriodicWarming(3600000), in the continuation
\* of the await: setInterval is armed.
StartPeriodicWarming ==
  /\ warm.pc = "done"
  /\ warm.since < 0
  /\ warm' = [warm EXCEPT !.since = now]
  /\ lastOp' = Step
  /\ UNCHANGED <<now, cache, store, patternSets, redisUp, processingQueue, preCalls,
                 fetchLog, WarmRest>>

\* setInterval(async () => { await this.warmCache() }, intervalMs): the callback.
PeriodicWarming ==
  /\ IntervalDue
  /\ WarmCacheStart

\* The clock moves on to the next instant, unless the program has a step to
\* take at once (arming the interval, running a callback that is due).  A
\* warmCache run takes a second at most: the clock passes no later instant
\* while one is under way.
PeriodTick ==
  /\ \E n \in 1..Min(MaxPeriodTicks, Len(PeriodInstants) - 1) :
       /\ now = PeriodInstants[n] * 1000
       /\ now' = PeriodInstants[n + 1] * 1000
       /\ n > 1 => warm.pc \in {"idle", "done"}
  /\ ~(warm.pc = "done" /\ warm.since < 0)
  /\ ~IntervalDue
  /\ store' = Unexpired(store, now')
  /\ patternSets' = Unexpired(patternSets, now')
  /\ lastOp' = Op("tick", <<>>, Null, Null)
  /\ UNCHANGED <<cache, redisUp, processingQueue, preCalls, fetchLog, warm, WarmRest>>

InitPeriodic ==
  /\ now = 0
  /\ cache = <<>>
  /\ store = <<>>
  /\ patternSets = <<>>
  /\ redisUp = TRUE
  /\ processingKeys = {}
  /\ calls = <<>>
  /\ bgTasks = <<>>
  /\ fetchLog = [e \in WarmEndpoints |-> NoPreLog]
  /\ lastOp = NoOp
  /\ maxSize = MaxSizePeriodic
  /\ dependencies = <<>>
  /\ depCall = <<>>
  /\ processingQueue = <<>>
  /\ preCalls = [i \in WarmSlots |-> IdlePre]
  /\ warm = IdlePeriodic
  /\ setCalls = <<>>

NextPeriodic ==
  \/ StartupWarming
  \/ StartPeriodicWarming
  \/ PeriodicWarming
  \/ \E i \in WarmSlots : PreFetchOk(i)
  \/ \E i \in WarmSlots : PreStore(i)
  \/ WarmFeaturedReturned
  \/ \E i \in WarmSlots \ {1} : PreFinish(i)
  \/ WarmListingsSettled
  \/ PeriodTick

SpecPeriodic == InitPeriodic /\ [][NextPeriodic]_vars

----------------------------------------------------------------------------

(* Claims *)

\* C1: set(k, v, ttl) immediately followed by get(k) returns v, for the
\* MemoryCache and for the facade, also when the set found L1 full.
C1_SetThenGet ==
  (lastOp.op \in {"memGet", "svcGet"} /\ lastOp.afterSet # Null)
    => lastOp.result = lastOp.afterSet

C1_Witness ==
  /\ lastOp.op = "svcGet"
  /\ lastOp.afterSet = "B"
  /\ lastOp.atCapacity
  /\ lastOp.result = "B"

\* C2: MemoryCache.get and MemoryCache.has never report an entry once
\* now > createdAt + ttl, ttl being the TTL given to the set that stored it
\* (the default TTL when none was given).
C2_NoL1ReadPastTTL ==
  /\ (lastOp.op = "memGet" /\ lastOp.result # Null) => now <= lastOp.hardExp
  /\ (lastOp.op = "memHas" /\ lastOp.result = "true") => now <= lastOp.hardExp

\* set(k, v, 5 s) at time 0, and the get at 6 s finds the entry expired.
C2_Witness ==
  /\ lastOp.op = "memGet"
  /\ lastOp.result = Null
  /\ lastOp.hardExp = 5000
  /\ now = 6000

\* C3: CacheService.get and getMultiple never return a value later than ttl
\* seconds after the set that stored it.
C3_NoReadPastHardExpiry ==
  /\ (lastOp.op \in {"svcGet", "svcGetOpts"} /\ lastOp.result # Null)
       => now <= lastOp.hardExp
  /\ lastOp.op = "svcGetMultiple"
       => \A i \in 1..Len(lastOp.values) : now <= lastOp.values[i].hardExp

\* C4: invalidatePattern("a:b:*"), on L1, on L2 and through the facade,
\* removes every key with prefix "a:b:" and no other key: none that has only
\* the prefix "a:", none like "a:bc:x".
C4_PrefixInvalidation ==
  LET inL1 == lastOp.op \in {"memInvalidatePattern", "svcInvalidatePattern"}
      inL2 == lastOp.op \in {"redisInvalidatePattern", "svcInvalidatePattern"}
      Matches(k) == HasPrefix(k, <<"a", ":", "b", ":">>)
  IN lastOp.key = P_abStar =>
       /\ inL1 => MemKeys(cache) = {k \in lastOp.l1Before : ~Matches(k)}
       /\ inL2 => DOMAIN store = {k \in lastOp.l2Before : ~Matches(k)}

\* C5: at every instant at most one background revalidation is in flight per
\* key: the test of processingKeys and the insertion are one step, so a
\* getWithSWR call that takes the stale branch while the marker of its key is
\* held invokes no fetcher.
C5_OneRevalidationPerKey ==
  /\ \A a, b \in DOMAIN bgTasks : bgTasks[a].key = bgTasks[b].key => a = b
  /\ processingKeys = {bgTasks[a].key : a \in DOMAIN bgTasks}
  /\ (lastOp.op = "swrReturn" /\ lastOp.path = "stale" /\ lastOp.marker)
       => ~lastOp.launched /\ lastOp.count = 0

C5_Witness ==
  /\ lastOp.op = "swrReturn" /\ lastOp.path = "stale" /\ lastOp.marker
  /\ Len(bgTasks) = 1 /\ bgTasks[1].key = lastOp.key
  /\ \E i \in DOMAIN calls : calls[i].pc = "decide" /\ calls[i].key = lastOp.key

\* C6: after getWithSWR has stored a value for k at time t, a getWithSWR call
\* for k that begins in [t, t + freshTTL) returns that value with no side
\* effect: it invokes no fetcher, creates no marker, writes nothing.
C6_FreshWindowNoSideEffects ==
  /\ \A i \in DOMAIN calls :
       (calls[i].pc = "fetching" /\ calls[i].window = "fresh") => calls[i].stored = Null
  /\ (lastOp.op = "swrReturn" /\ lastOp.window = "fresh" /\ lastOp.stored # Null)
       => lastOp.path = "fresh" /\ lastOp.result = lastOp.stored

\* C7: a getWithSWR call that begins when the entry stored by getWithSWR has
\* freshTTL <= age < staleTTL returns the cached value without awaiting the
\* fetcher and, unless the marker is held, launches exactly one background fetch.
C7_StaleWindowServesCached ==
  /\ \A i \in DOMAIN calls : calls[i].pc = "fetching" => calls[i].window # "stale"
  /\ (lastOp.op = "swrReturn" /\ lastOp.window = "stale")
       => /\ lastOp.path = "stale"
          /\ lastOp.result = lastOp.stored
          /\ lastOp.marker \/ lastOp.launched

\* C8: a getWithSWR call that finds k in neither tier (and is alone in writing
\* k) invokes the fetcher exactly once; when the fetcher resolves, the result is
\* returned and stored under k for freshTTL seconds (in L1 for no more than the
\* 300 s cap, in L2 when it is reachable); when it rejects, the error reaches
\* the caller and no tier holds k.
C8_ColdPath ==
  (lastOp.op = "swrReturn" /\ lastOp.cold) =>
    /\ lastOp.count = 1
    /\ ~lastOp.failed =>
         /\ lastOp.result = lastOp.value
         /\ IndexOf(cache, lastOp.key) # 0
         /\ cache[IndexOf(cache, lastOp.key)].value = lastOp.value
         /\ cache[IndexOf(cache, lastOp.key)].expiresAt
              = now + Min(lastOp.swr.freshTTL, MemoryCapSeconds) * 1000
         /\ redisUp => /\ lastOp.key \in DOMAIN store
                       /\ store[lastOp.key].value = lastOp.value
                       /\ store[lastOp.key].px = now + lastOp.swr.freshTTL * 1000
    /\ lastOp.failed =>
         /\ lastOp.path = "error"
         /\ IndexOf(cache, lastOp.key) = 0
         /\ lastOp.key \notin DOMAIN store

C8_Witness ==
  /\ lastOp.op = "swrReturn" /\ lastOp.cold /\ ~lastOp.failed
  /\ lastOp.result = "B" /\ redisUp /\ lastOp.key \in DOMAIN store
  /\ lastOp.swr.freshTTL = 5

\* C9: when the fetcher of a getWithSWR call rejects and a tier can still serve
\* a value for k (whatever its age), the call returns that value; the error
\* reaches the caller only when no tier can serve one.
C9_StaleFallback ==
  (lastOp.op = "swrReturn" /\ lastOp.failed) =>
    /\ lastOp.prior # Null => lastOp.path = "fallback" /\ lastOp.result = lastOp.prior
    /\ lastOp.prior = Null => lastOp.path = "error" /\ lastOp.result = Null

C9_Witness ==
  /\ lastOp.op = "swrReturn" /\ lastOp.failed /\ lastOp.path = "fallback"
  /\ lastOp.age >= lastOp.swr.staleTTL * 1000
  /\ lastOp.result = "C"

\* C10: for any dependency map, cyclic or not, invalidateWithDependencies
\* terminates (collectDependents ends within n * (n + 1) steps for n patterns),
\* calls the facade's invalidatePattern exactly once for every pattern
\* reachable from the start key and for no other, and returns the sum of the
\* counts those calls returned.
C10_CascadeOnceAndTerminates ==
  /\ depCall.steps <= Cardinality(DepNodes) * (Cardinality(DepNodes) + 1)
  /\ depCall.pc = "done" =>
       /\ \A a, b \in 1..Len(depCall.invalidated) :
            depCall.invalidated[a].pattern = depCall.invalidated[b].pattern => a = b
       /\ {depCall.invalidated[a].pattern : a \in 1..Len(depCall.invalidated)}
            = ReachFrom(depCall.graph, {depCall.key})
       /\ lastOp.op = "invalidateWithDependencies"
            => lastOp.count = SumCounts(depCall.invalidated, Len(depCall.invalidated))

C10_Witness ==
  /\ depCall.pc = "done" /\ depCall.key = P_aStar
  /\ lastOp.op = "invalidateWithDependencies" /\ lastOp.count > 0
  /\ P_abStar \in DependentsOf(depCall.graph, P_aStar)
  /\ P_ab1 \in DependentsOf(depCall.graph, P_abStar)
  /\ P_aStar \in DependentsOf(depCall.graph, P_abStar)
  /\ Len(depCall.invalidated) = 3

\* C12: with the distributed tier unavailable (every L2 call fails),
\* CacheService.set does not throw and is an L1-only write that a following
\* get returns, and CacheService.get does not throw and returns empty for a
\* key that L1 does not hold.
C12_FacadeNeverThrowsL2Down ==
  ~redisUp =>
    /\ lastOp.op \in {"svcSet", "svcSetOpts"} => lastOp.result = "ok"
    /\ lastOp.op = "svcGet" /\ lastOp.afterSet # Null => lastOp.result = lastOp.afterSet
    /\ lastOp.op = "svcGet" /\ lastOp.level # "memory" => lastOp.result = Null

\* C18: every entry a facade operation writes into L1 has an L1 lifetime
\* (expiresAt - createdAt) of at most min(requested TTL, 300 s): for set and
\* setMultiple the TTL of the call, for the copy get makes of an L2 hit the
\* TTL the entry was stored with (its L2 expiresAt - createdAt).
C18_L1LifetimeBounded ==
  LET i == IndexOf(cache, lastOp.key)
      lifetime == cache[i].expiresAt - cache[i].createdAt
  IN /\ lastOp.op \in {"svcSet", "svcSetMultiple"} /\ i # 0 =>
          lifetime <= Min(cache[i].hardExp - cache[i].createdAt, MemoryCapSeconds * 1000)
     /\ lastOp.op = "svcGet" /\ lastOp.level = "redis" /\ i # 0
           /\ lastOp.key \in DOMAIN store =>
          lifetime <= Min(store[lastOp.key].expiresAt - store[lastOp.key].createdAt,
                          MemoryCapSeconds * 1000)

\* C13: CacheService.healthCheck reports 'healthy' when L2 answers, 'degraded'
\* when L2 is unavailable while the L1 Map holds at least one entry, and
\* 'unhealthy' only when L2 is unavailable and the Map is empty; it returns one
\* of the three and never throws.
C13_HealthCheck ==
  lastOp.op = "healthCheck" =>
    /\ lastOp.result \in {"healthy", "degraded", "unhealthy"}
    /\ lastOp.result = "healthy" <=> lastOp.up
    /\ lastOp.result = "degraded" <=> ~lastOp.up /\ lastOp.l1Before # {}
    /\ lastOp.result = "unhealthy" <=> ~lastOp.up /\ lastOp.l1Before = {}

C13_Witness ==
  /\ lastOp.op = "healthCheck" /\ lastOp.result = "degraded"
  /\ ~lastOp.up /\ lastOp.l1Before # {}

\* C19: CacheService.invalidatePattern(p) returns the sum of what the two
\* tiers removed, and once it has returned and until something else is done,
\* get(k) is empty for every key k matching p that a tier held.
C19_InvalidatePatternBothTiers ==
  lastOp.op = "svcInvalidatePattern" =>
    /\ lastOp.count =
         Cardinality({k \in lastOp.l1Before : RegexTest(lastOp.key, k)})
         + (IF lastOp.up
            THEN Cardinality({k \in lastOp.l2Before : GlobMatch(lastOp.key, k)})
            ELSE 0)
    /\ \A k \in lastOp.l1Before \cup lastOp.l2Before :
         GlobMatch(lastOp.key, k) =>
           SvcGetOp(cache, store, k, DefaultOpts, now, redisUp).value = Null

\* C14: no operation of the RedisCache client (get, set, delete, has,
\* getMultiple, setMultiple, invalidatePattern, clear) throws to its caller
\* while the store is unreachable, and the reads then report a miss.
C14_RedisClientNeverThrows ==
  ~redisUp =>
    /\ lastOp.op \in {"redisSet", "redisSetMultiple", "redisClear", "redisGet",
                      "redisDelete", "redisHas", "redisGetMultiple",
                      "redisInvalidatePattern"} => lastOp.result # "throw"
    /\ lastOp.op = "redisGet" => lastOp.result = Null
    /\ lastOp.op = "redisHas" => lastOp.result = "false"
    /\ lastOp.op = "redisGetMultiple" => lastOp.values = <<>>

\* C15: of the precomputeResponse calls under way for one endpoint at most one
\* has a fetcher running (those that arrive while it is in flight await its
\* promise), all callers of one computation receive the same outcome (the
\* same response or the same failure), and when the call that started the
\* computation has returned or thrown, processingQueue holds no entry for
\* the endpoint.
C15_OneComputationSameOutcome ==
  /\ \A e \in PreEndpoints :
       /\ Cardinality({i \in DOMAIN preCalls :
                         preCalls[i].pc = "computing" /\ preCalls[i].endpoint = e}) <= 1
       /\ \A id \in DOMAIN fetchLog[e].outcomes :
            Cardinality(fetchLog[e].outcomes[id]) <= 1
  /\ lastOp.op = "precomputeReturn" /\ lastOp.path = "owner" =>
       ~ProcessingHas(processingQueue, PrecomputedKey(lastOp.key))

\* C16: getPrecomputed(endpoint) is a read and nothing else: it invokes no
\* fetcher, leaves processingQueue as it found it (also while a computation
\* of the endpoint is in flight), and returns empty when neither tier holds
\* an entry under 'precomputed:' + endpoint.
C16_GetPrecomputedPureRead ==
  lastOp.op = "getPrecomputed" =>
    /\ lastOp.count = 0
    /\ ~lastOp.launched
    /\ lastOp.cold => lastOp.result = Null

C16_Witness ==
  /\ lastOp.op = "getPrecomputed" /\ lastOp.cold /\ lastOp.result = Null
  /\ lastOp.marker
  /\ \E i \in DOMAIN preCalls : preCalls[i].pc = "computing"

\* C17: when precomputeResponse(endpoint, fetcher, {priority, ttl}) has stored
\* its response, L2 holds under 'precomputed:' + endpoint the payload wrapped
\* with its metadata, with the explicit ttl if one was given and otherwise
\* 24 h for priority high and 1 h for the others; getPrecomputed(endpoint)
\* returns that response until the ttl has run out (Redis answering, no later
\* write under the key); and a computation whose fetcher failed stores
\* nothing: the tiers hold under the key only responses of fetches that
\* succeeded.
C17_StoredUnderKeyForTTL ==
  \A e \in PreEndpoints :
    LET key == PrecomputedPrefix \o e
        log == fetchLog[e]
        expected == IF log.options.ttl # 0 THEN log.options.ttl
                    ELSE IF log.options.priority = "high" THEN 86400 ELSE 3600
    IN /\ \A i \in DOMAIN preCalls :
            preCalls[i].pc = "stored" /\ ~preCalls[i].threw /\ preCalls[i].endpoint = e =>
              /\ key \in DOMAIN store
              /\ store[key].value =
                   PrecomputedResponse(FetcherJSON(preCalls[i].id), preCalls[i].options,
                                       preCalls[i].startTime, now)
              /\ store[key].expiresAt = now + expected * 1000
       /\ lastOp.op = "getPrecomputed" /\ lastOp.key = e /\ lastOp.up
            /\ log.full /\ now < log.storedAt + expected * 1000 =>
              lastOp.result = log.value
       /\ key \in DOMAIN store => store[key].value \in log.written
       /\ IndexOf(cache, key) # 0 => cache[IndexOf(cache, key)].value \in log.written
       /\ lastOp.op = "precomputeReturn" /\ lastOp.failed /\ log.written = {} =>
            key \notin DOMAIN store /\ IndexOf(cache, key) = 0

C17_Witness ==
  /\ lastOp.op = "getPrecomputed" /\ lastOp.up
  /\ fetchLog[lastOp.key].full
  /\ fetchLog[lastOp.key].options = [priority |-> "high", ttl |-> 0]
  /\ now - fetchLog[lastOp.key].storedAt > OtherPriorityTTL * 1000
  /\ now < fetchLog[lastOp.key].storedAt + HighPriorityTTL * 1000
  /\ lastOp.result = fetchLog[lastOp.key].value
  /\ lastOp.result # Null

\* C11: when warmCache() has returned (it does not throw), every declared
\* query whose fetch did not fail during the run is stored, so getPrecomputed
\* returns its response, and getPrecomputed returns empty for a query whose
\* fetch failed and that was not stored before the run: a failing query does
\* not keep the others from being computed.
C11_FailingQueryDoesNotAbortRun ==
  lastOp.op = "warmCacheReturn" =>
    /\ lastOp.result = "ok"
    /\ \A e \in WarmEndpoints :
         LET got == GetPrecomputed(cache, store, processingQueue, fetchLog, e, now,
                                   redisUp).value
         IN /\ ~FailedInRun(e) => got # Null
            /\ FailedInRun(e) /\ e \notin warm.storedBefore => got = Null

\* C20: every fetcher invocation is bounded by a timeout, so that also when a
\* fetcher never settles the in-flight marker of its key is eventually
\* removed from processingKeys.
C20_MarkerEventuallyCleared ==
  \A k \in SWRKeys : (k \in processingKeys) ~> (k \notin processingKeys)

\* C26: after any sequence of MemoryCache operations the Map never holds more
\* than maxSize entries, also when entries are inserted at one clock instant.
C26_L1NeverExceedsMaxSize == Len(cache) <= maxSize

\* C27: a MemoryCache.set of an absent key that finds the Map full evicts
\* exactly one entry, one whose lastAccessed is the oldest; any other set
\* evicts nothing.
C27_FullSetEvictsOldest ==
  [][lastOp'.op = "memSet" =>
       LET evicted == {i \in 1..Len(cache) :
                         /\ cache[i].key # lastOp'.key
                         /\ cache[i].key \notin MemKeys(cache')}
       IN IF Len(cache) >= maxSize /\ IndexOf(cache, lastOp'.key) = 0
          THEN /\ Cardinality(evicted) = 1
               /\ \A i \in evicted, j \in 1..Len(cache) :
                     cache[i].lastAccessed <= cache[j].lastAccessed
          ELSE evicted = {}]_vars

\* C23: a RedisCache read of a key whose stored payload cannot be decoded is a
\* miss that does not throw, and the payload is no longer stored afterwards.
C23_UndecodableIsMissAndEvicted ==
  [][/\ lastOp'.op = "redisGet" /\ lastOp'.key \in DOMAIN store
          /\ ParseThrows(store[lastOp'.key])
        => lastOp'.result = Null /\ lastOp'.key \notin DOMAIN store'
     /\ lastOp'.op = "redisGetMultiple"
        => \A n \in 1..Len(lastOp'.key) :
             LET k == lastOp'.key[n]
             IN k \in DOMAIN store /\ ParseThrows(store[k])
                => /\ \A m \in 1..Len(lastOp'.values) : lastOp'.values[m].key # k
                   /\ k \notin DOMAIN store']_vars

\* C28: every key stored in L2 is a member of the index set of each of its
\* prefix patterns, and invalidatePattern(p) deletes exactly the members of
\* the index set of p and then removes that index set.
C28_PatternIndex ==
  /\ [](\A k \in DOMAIN store :
          \A n \in 1..Len(ExtractPatterns(k)) :
             /\ ExtractPatterns(k)[n] \in DOMAIN patternSets
             /\ k \in patternSets[ExtractPatterns(k)[n]].members)
  /\ [][lastOp'.op = "redisInvalidatePattern" /\ redisUp =>
          /\ DOMAIN store \ DOMAIN store' =
               (IF lastOp'.key \in DOMAIN patternSets
                THEN patternSets[lastOp'.key].members ELSE {}) \cap DOMAIN store
          /\ lastOp'.key \notin DOMAIN patternSets']_vars

\* C29: for every entry stored in L2 and every prefix pattern of its key, the
\* index set of the pattern exists and expires no earlier than the entry's
\* own expiry plus the grace period.
C29_IndexOutlivesMembers ==
  \A k \in DOMAIN store :
     \A n \in 1..Len(ExtractPatterns(k)) :
        LET p == ExtractPatterns(k)[n]
        IN /\ p \in DOMAIN patternSets
           /\ k \in patternSets[p].members
           /\ patternSets[p].px >= store[k].px + PatternGraceSeconds * 1000

\* C30: a key is in processingKeys exactly while a background revalidation of
\* it is running, however the revalidation ends; so a call in the stale window
\* starts a revalidation exactly when none is running for its key.
C30_MarkerWhileRevalidating ==
  /\ processingKeys = {bgTasks[j].key : j \in DOMAIN bgTasks}
  /\ lastOp.op = "swrReturn" /\ lastOp.path = "stale" =>
       (lastOp.launched <=> ~lastOp.marker)

\* A call in the stale window started a new revalidation after an earlier one
\* of the key had ended in a failure of the fetcher or of the store.
C30_Witness ==
  /\ lastOp.op = "swrReturn" /\ lastOp.path = "stale" /\ lastOp.launched
  /\ fetchLog[lastOp.key].bgEnded \cap {"fetchFailed", "setFailed"} # {}
  /\ processingKeys = {lastOp.key}

\* C21: the number of background tasks under way in the process (background
\* revalidations of getWithSWR and precomputations) never exceeds the
\* configured bound.
C21_BackgroundTasksBounded == BackgroundTasks <= MaxConcurrent

\* C22: no getWithSWR call runs, and none returns, with freshTTL > staleTTL
\* (such options are refused before any call is made).
C22_NoCallWithInvertedTTLs ==
  /\ \A i \in DOMAIN calls :
       calls[i].pc # "idle" => calls[i].swr.freshTTL <= calls[i].swr.staleTTL
  /\ lastOp.op = "swrReturn" => lastOp.swr.freshTTL <= lastOp.swr.staleTTL

C25_DetailsOfFeaturedPrecomputed ==
  /\ lastOp.op = "warmCacheReturn"
  /\ ~FailedInRun(E_featured)
  /\ GetPrecomputed(cache, store, processingQueue, fetchLog, E_featured, now,
                    redisUp).value # Null
  => \A n \in 1..Len(FeaturedProprefs) :
        GetPrecomputed(cache, store, processingQueue, fetchLog,
                       DetailEndpoint(FeaturedProprefs[n]), now, redisUp).value # Null

\* C31: the createdAt from which getWithSWR computes the age it compares with
\* freshTTL and staleTTL is the createdAt recorded in the entry of the tier
\* that serves the key (L1 when it holds the key, otherwise L2), so that the age
\* is the time since that entry was written.
C31_AgeFromRecordedCreatedAt ==
  [][\A i \in DOMAIN calls :
       calls[i].pc = "idle" /\ calls'[i].pc = "decide" /\ calls'[i].found =>
         LET k == calls'[i].key
         IN calls'[i].createdAt =
              IF HeldL1(cache, k, now) THEN cache[IndexOf(cache, k)].createdAt
              ELSE store[k].createdAt]_vars

\* C32: at every instant at most one fetcher invocation is under way for a
\* key, counting the fetchAndCache calls awaiting their fetcher (cold or
\* expired path) and the background revalidations together.
C32_OneFetchPerKey ==
  \A k \in SWRKeys :
    Cardinality({i \in DOMAIN calls : calls[i].pc = "fetching" /\ calls[i].key = k})
      + Cardinality({j \in DOMAIN bgTasks : bgTasks[j].key = k}) <= 1

\* C33: invalidatePattern(p) leaves a key k matching p in a tier at its return
\* only when a writer of k (a getWithSWR fetch, a background revalidation or a
\* set) was under way while the invalidation ran; a key stored by such a
\* writer is then removed from a tier by nothing but its expiry (no later
\* invalidation being issued): every step that removes k from L1 is the L1 pass
\* of an invalidation or the removal of an expired entry, every step that
\* removes k from L2 is the DEL of an invalidation or the native expiry.
C33_RacingWriterRepopulates ==
  /\ [](lastOp.op = "invalidatePatternReturn"
          /\ (IndexOf(cache, K_ab1) # 0 \/ K_ab1 \in DOMAIN store)
        => depCall.raced)
  /\ [][/\ IndexOf(cache, K_ab1) # 0 /\ IndexOf(cache', K_ab1) = 0 =>
             \/ depCall.pc = "idle" /\ depCall'.pc = "keys"
             \/ MemExpired(cache[IndexOf(cache, K_ab1)], now)
        /\ K_ab1 \in DOMAIN store /\ K_ab1 \notin DOMAIN store' =>
             \/ depCall.pc = "keys" /\ depCall'.pc = "del"
             \/ store[K_ab1].px <= now']_vars

\* invalidatePattern('a:b:*') began while both tiers held 'a:b:1' and a
\* background revalidation of it was under way, and at its return both tiers
\* hold the key again.
C33_Witness ==
  /\ lastOp.op = "invalidatePatternReturn"
  /\ K_ab1 \in lastOp.l1Before
  /\ K_ab1 \in lastOp.l2Before
  /\ depCall.background
  /\ lastOp.count > 0
  /\ IndexOf(cache, K_ab1) # 0
  /\ K_ab1 \in DOMAIN store

\* C34: a CacheService.get(k, opts) that has returned was served by L1 exactly
\* when L1 was not skipped and held k unexpired, and called redisCache.get
\* exactly when it was not served by L1 and L2 was not skipped; after an L2
\* hit without skipMemory the next get(k) is served by L1 and does not call
\* redisCache.get; with skipMemory the Map is left as it was, with skipRedis
\* the Redis key space is; and the call incremented exactly one counter, the
\* one of the tier that served it (misses when none did).
C34_GetTierOrder ==
  /\ [](lastOp.op \in {"svcGet", "svcGetOpts"} =>
          /\ lastOp.level = "memory"
               <=> ~lastOp.opts.skipMemory /\ lastOp.key \in lastOp.l1Before
          /\ lastOp.redisContacted
               <=> lastOp.level # "memory" /\ ~lastOp.opts.skipRedis
          /\ lastOp.level = "redis" /\ ~lastOp.opts.skipMemory =>
               LET next == SvcGetOp(cache, store, lastOp.key, DefaultOpts, now, redisUp)
               IN /\ next.level = "memory"
                  /\ next.value = lastOp.result
                  /\ ~next.redisContacted
          /\ lastOp.stats.memoryHits + lastOp.stats.redisHits + lastOp.stats.misses = 1
          /\ lastOp.stats.memoryHits = 1 <=> lastOp.level = "memory"
          /\ lastOp.stats.redisHits = 1 <=> lastOp.level = "redis")
  /\ [][lastOp'.op \in {"svcGet", "svcGetOpts"} =>
          /\ lastOp'.opts.skipMemory => cache' = cache
          /\ lastOp'.opts.skipRedis => store' = store
          /\ lastOp'.level = "memory" => store' = store]_vars

\* A get found the key in L2 alone (L1 holding another key), copied it into
\* L1, and returned the value.
C34_Witness ==
  /\ lastOp.op = "svcGet"
  /\ lastOp.level = "redis"
  /\ lastOp.l1Before # {}
  /\ lastOp.key \notin lastOp.l1Before
  /\ lastOp.redisContacted
  /\ HeldL1(cache, lastOp.key, now)

\* C35: the step in which a background revalidation learns that its fetcher
\* rejected leaves L1, L2 and the pattern sets as they were, so that each tier
\* serves for the key what it served before; it returns nothing to a
\* getWithSWR caller and touches no call in progress; and it removes the key
\* from processingKeys, which is all it changes of the program's state.
C35_RejectedRevalidationIsSilent ==
  [][\A j \in 1..NumCalls :
       BgFetchFail(j) =>
         /\ cache' = cache
         /\ store' = store
         /\ patternSets' = patternSets
         /\ Readable(cache', store', bgTasks[j].key, now', redisUp')
              = Readable(cache, store, bgTasks[j].key, now, redisUp)
         /\ calls' = calls
         /\ lastOp'.op # "swrReturn"
         /\ bgTasks[j].key \in processingKeys
         /\ processingKeys' = processingKeys \ {bgTasks[j].key}
         /\ <<now', redisUp', maxSize'>> = <<now, redisUp, maxSize>>]_vars

\* A background revalidation of the key has failed, none has stored, the
\* marker is gone and the tiers still serve the value stored before.
C35_Witness ==
  /\ fetchLog # <<>>
  /\ fetchLog[K_ab1].bgEnded = {"fetchFailed"}
  /\ K_ab1 \notin processingKeys
  /\ bgTasks = <<>>
  /\ fetchLog[K_ab1].value # Null
  /\ Readable(cache, store, K_ab1, now, redisUp) = fetchLog[K_ab1].value

\* C36: when CacheService.invalidatePattern(p) starts with the same keys in
\* L1 and in L2 (Redis answering), it ends with the same keys in both, and
\* the count it returns is twice the number of keys removed: both tiers
\* removed the same keys.
C36_TiersAgreeOnPattern ==
  lastOp.op = "svcInvalidatePattern" /\ lastOp.up /\ lastOp.l1Before = lastOp.l2Before
  => /\ MemKeys(cache) = DOMAIN store
     /\ lastOp.count = 2 * Cardinality(lastOp.l1Before \ MemKeys(cache))

\* C37: when invalidateProperty(propref) has returned, getPrecomputed is
\* empty for the detail response of propref, for the featured response and
\* for the listing response, and it still returns the detail response of
\* every other property that a tier held when the call began.
C37_OnlyDependentResponsesRemoved ==
  LET Got(e) == GetPrecomputed(cache, store, processingQueue, fetchLog, e, now,
                               redisUp).value
  IN lastOp.op = "invalidateProperty" =>
       /\ \A e \in {DetailEndpoint(lastOp.key), E_featured, E_listRent} : Got(e) = Null
       /\ \A q \in Proprefs \ {lastOp.key} :
            PrecomputedKey(DetailEndpoint(q)) \in lastOp.l1Before \cup lastOp.l2Before
              => Got(DetailEndpoint(q)) # Null

\* C38: whenever no CacheService.set call is in progress, every key that
\* was written is held by L1 and by L2 with the same value, a value that was
\* written.
C38_TiersAgreeAfterConcurrentSets ==
  setCalls = <<>> =>
    \A k \in SetKeys :
      IndexOf(cache, k) # 0 \/ k \in DOMAIN store =>
        /\ IndexOf(cache, k) # 0
        /\ k \in DOMAIN store
        /\ cache[IndexOf(cache, k)].value = store[k].value
        /\ store[k].value \in Values

\* The last of several overlapping set calls for one key, which wrote
\* different values, has returned; both tiers hold the key.
C38_Witness ==
  /\ setCalls = <<>>
  /\ lastOp.op = "svcSetReturn"
  /\ lastOp.count > 0
  /\ IndexOf(cache, lastOp.key) # 0
  /\ lastOp.key \in DOMAIN store
  /\ store[lastOp.key].value # lastOp.value

\* C39: from the moment the startup warmCache has returned and the interval
\* is armed, getPrecomputed is never empty for the featured endpoint or for a
\* listing endpoint that warmCache precomputes (every fetch succeeding, Redis
\* up, every interval callback started on time).
C39_WarmedNeverEmpty ==
  warm # <<>> /\ warm.pc # "idle" /\ warm.since >= 0 /\ ~IntervalDue =>
    \A e \in WarmEndpoints :
      GetPrecomputed(cache, store, processingQueue, fetchLog, e, now,
                     redisUp).value # Null


\* C40: invalidateWithDependencies(key) for a concrete key (no '*') that
\* matches a registered trigger pattern, as 'a:b:1' matches 'a:*', also
\* invalidates that trigger's dependents and their transitive dependents
\* (stated for the triggers that are not registered as their own dependent).
C40_ConcreteKeyCascades ==
  depCall.pc = "done" /\ lastOp.op = "invalidateWithDependencies"
    /\ (\A n \in 1..Len(depCall.key) : depCall.key[n] # "*") =>
    \A trigger \in DOMAIN depCall.graph :
      trigger # depCall.key /\ GlobMatch(trigger, depCall.key)
        /\ trigger \notin DependentsOf(depCall.graph, trigger) =>
        ReachFrom(depCall.graph, DependentsOf(depCall.graph, trigger))
          \subseteq {depCall.invalidated[a].pattern :
                       a \in 1..Len(depCall.invalidated)}

====
